---- MODULE Spec2Model ----
(***************************************************************************)
(* A model of the sampling and pair-BAR pipeline of timemachine:           *)
(*   - batches, sample and the sequential runner / aggregator of           *)
(*     timemachine/fe/free_energy.py,                                      *)
(*   - sample and estimate_free_energy_given_initial_states of             *)
(*     timemachine/fe/rbfe.py.                                             *)
(*   - the helper functions get_batch_U_fns, setup_initial_states          *)
(*     (rbfe.py), image_frames (free_energy.py), image_xvb and the         *)
(*     water-exchange driver (examples/water_sampling_mc.py),              *)
(*     generate_vd_idxs and HarmonicBondHandler.static_parameterize        *)
(*     (ff/handlers/bonded.py), each called on its own (SpecUtil).         *)
(* Python statements are the steps; a "pc" variable names the statement    *)
(* each function is about to execute.  Lambda indices are 0-based as in    *)
(* the source; TLA+ sequences are 1-based, so list[i] is seq[i + 1].       *)
(***************************************************************************)
EXTENDS Integers, Sequences, FiniteSets, TLC

\* ---------------------------------------------------------------- bounds
MaxFrames == 3
MaxStepsPerFrame == 2
MaxEqSteps == 1
MaxBuffer == 3
MaxL == 4
\* Number of energy terms (potentials) of a state.
NumTerms == 2
\* The water-exchange driver: batches run (range(1000000) in the source) and
\* the largest --mc_steps_per_batch and --md_steps_per_batch.
MaxBatches == 2
MaxMcSteps == 2
MaxMdSteps == 2

\* Optional values: None is the empty tuple, a present value v is <<v>>.
None == <<>>
Some(v) == <<v>>
Val(o) == o[1]

\* Python truthiness of an Optional[int]: None and 0 are falsy.
Truthy(o) == o # None /\ Val(o) # 0

VARIABLES
    mode,               \* which entry point runs: "batches", "sample", "estimate"
    impl,               \* which module's code: "free_energy" or "rbfe"
    rel,                \* the call of rbfe.estimate_relative_free_energy, if any
    first_ret,          \* Optional: what an earlier sample call on the same inputs returned
    \* ---- batches generator and its consumer
    gen,                \* generator frame of batches(n, batch_size)
    gen_out,            \* outcome of the last next(): "none", "yield", an exception
    yielded,            \* values the consumer has received so far
    \* ---- one call of sample
    s_pc,               \* statement sample is at ("idle" when not called)
    initial_state,      \* argument
    md_params,          \* argument (protocol)
    max_buffer_frames,  \* argument, Optional[int]
    ctxt,               \* custom_ops.Context
    all_coords,         \* frames accumulated
    all_boxes,          \* boxes accumulated
    batch_coords,       \* result of the last run_production_steps (batched branch)
    batch_boxes,
    coords_type,        \* "NDArray", "StoredArrays" or "unset"
    prod_calls,         \* history: frames recorded by each production engine call
    s_ret,              \* Optional return value
    s_exc,              \* exception raised by sample, "none" when none
    \* ---- one estimate: the sequential runner and the aggregator
    r_pc,               \* statement the estimate is at ("idle" when not running)
    initial_states,     \* argument: the ladder
    keep_idxs,          \* argument, Optional set of ints
    lamb_idx,           \* loop variable of the runner (-1 before the loop)
    cur_frames,         \* Optional trajectory object
    cur_boxes,
    cur_batch_U_fns,    \* Optional: the state whose potentials the evaluators bind
    tmp_states,         \* free_energy.py: the window of EnergyDecomposedStates
    prev_frames,        \* rbfe.py: the previous state's trajectory
    prev_boxes,
    prev_batch_U_fns,
    stored_frames,
    stored_boxes,
    u_kln_by_component_by_lambda,
    agg_lamb_idx,       \* loop variable of the aggregator's pair-BAR loop
    all_dGs,
    all_errs,
    result,             \* Optional SimulationResult
    r_exc,              \* exception leaving the estimate, "none" when none
    sample_log,         \* history: <<"begin", i>> / <<"end", i>> of each sample call
    \* the helper functions, called on their own
    prog,               \* the function called ("none" in the pipeline above)
    frame,              \* its arguments and locals, a record per function
    out                 \* what it returned or raised, None while it runs

genVars == <<gen, gen_out, yielded>>
sampleVars == <<s_pc, initial_state, md_params, max_buffer_frames, ctxt, all_coords,
                all_boxes, batch_coords, batch_boxes, coords_type, prod_calls,
                s_ret, s_exc>>
runVars == <<r_pc, initial_states, keep_idxs, lamb_idx, cur_frames, cur_boxes,
             cur_batch_U_fns, tmp_states, prev_frames, prev_boxes, prev_batch_U_fns,
             stored_frames, stored_boxes, u_kln_by_component_by_lambda, agg_lamb_idx,
             all_dGs, all_errs, result, r_exc, sample_log>>
coreVars == <<mode, impl, rel, first_ret, genVars, sampleVars, runVars>>
utilVars == <<prog, frame, out>>
vars == <<coreVars, utilVars>>

\* ------------------------------------------------------------- batches
\* Python divmod (floor division), total on a non-zero divisor.
divmod(n, d) ==
    IF d > 0 THEN <<n \div d, n % d>>
    ELSE LET q == (0 - n) \div (0 - d) IN <<q, n - q * d>>

\* Calling batches(n, batch_size) only creates the generator; no statement of
\* its body has run yet.
batches(n, batch_size) == [n |-> n, batch_size |-> batch_size, pc |-> "start", i |-> 0]

NoGen == [n |-> 0, batch_size |-> 0, pc |-> "none", i |-> 0]

\* The two assert statements at the head of the generator body.
batches_precondition_noBatchSize(n, batch_size) == n >= 0
batches_precondition(n, batch_size) == n >= 0 /\ batch_size > 0

\* divmod, the for loop over range(quot) and the trailing "if rem: yield rem".
\* g.i counts the loop iterations already yielded.
batches_body_noRemGuard(g) ==
    IF g.batch_size = 0
    THEN [g |-> [g EXCEPT !.pc = "raised"], kind |-> "ZeroDivisionError", value |-> 0]
    ELSE LET quot == divmod(g.n, g.batch_size)[1]
             rem == divmod(g.n, g.batch_size)[2]
         IN IF g.pc \in {"start", "loop"} /\ g.i < quot
            THEN [g |-> [g EXCEPT !.pc = "loop", !.i = g.i + 1],
                  kind |-> "yield", value |-> g.batch_size]
            ELSE IF g.pc \in {"start", "loop"}
            THEN [g |-> [g EXCEPT !.pc = "rem"], kind |-> "yield", value |-> rem]
            ELSE [g |-> [g EXCEPT !.pc = "done"], kind |-> "StopIteration", value |-> 0]

batches_body(g) ==
    IF g.batch_size = 0
    THEN [g |-> [g EXCEPT !.pc = "raised"], kind |-> "ZeroDivisionError", value |-> 0]
    ELSE LET quot == divmod(g.n, g.batch_size)[1]
             rem == divmod(g.n, g.batch_size)[2]
         IN IF g.pc \in {"start", "loop"} /\ g.i < quot
            THEN [g |-> [g EXCEPT !.pc = "loop", !.i = g.i + 1],
                  kind |-> "yield", value |-> g.batch_size]
            ELSE IF g.pc \in {"start", "loop"} /\ rem # 0
            THEN [g |-> [g EXCEPT !.pc = "rem"], kind |-> "yield", value |-> rem]
            ELSE [g |-> [g EXCEPT !.pc = "done"], kind |-> "StopIteration", value |-> 0]

\* One next() on the generator: resume the body until its next yield, its end
\* (StopIteration) or an exception.  A finished generator keeps raising
\* StopIteration.
batches_next(g) ==
    IF g.pc \in {"done", "raised"}
    THEN [g |-> g, kind |-> "StopIteration", value |-> 0]
    ELSE IF g.pc = "start" /\ ~batches_precondition(g.n, g.batch_size)
    THEN [g |-> [g EXCEPT !.pc = "raised"], kind |-> "AssertionError", value |-> 0]
    ELSE batches_body(g)

\* ------------------------------------------------------------- engine
\* custom_ops.Context: the step counter and the step at which this initial
\* state's trajectory becomes non-finite (0: never).  The divergence step is a
\* property of the InitialState (seeds, x0, v0, box0), so the engine is
\* deterministic.  Non-finite coordinates stay non-finite.
Context(st) == [step |-> 0, diverge |-> st.diverge]

IsFiniteAt(diverge, t) == diverge = 0 \/ t < diverge

\* np.all(np.isfinite(ctxt.get_x_t()))
get_x_t_finite(c) == IsFiniteAt(c.diverge, c.step)

\* ctxt.multiple_steps_U(n_steps, store_u_interval, store_x_interval): advance
\* n_steps, recording a frame and a box every store_x_interval steps (none when
\* the interval is 0).
multiple_steps_U(c, n_steps, store_x_interval) ==
    LET nrec == IF store_x_interval > 0 THEN n_steps \div store_x_interval ELSE 0
        t(k) == c.step + k * store_x_interval
    IN [ctxt |-> [c EXCEPT !.step = c.step + n_steps],
        coords |-> [k \in 1..nrec |-> [t |-> t(k), finite |-> IsFiniteAt(c.diverge, t(k))]],
        boxes |-> [k \in 1..nrec |-> [t |-> t(k)]]]

\* -------------------------------------------------------------- sample
\* run_production_steps(n_steps), the closure of sample.
run_production_steps(c, n_steps, steps_per_frame) ==
    multiple_steps_U(c, n_steps, steps_per_frame)

\* The two length assertions after production.
sample_length_asserts(coords, boxes, n_frames) ==
    Len(coords) = n_frames /\ Len(boxes) = n_frames

\* The return statement of sample.
sample_return_lastBatch(coords, boxes, bcoords, bboxes) ==
    [coords |-> bcoords, boxes |-> bboxes]
sample_return(coords, boxes, bcoords, bboxes) ==
    [coords |-> coords, boxes |-> boxes]

SampleRaise(exc) ==
    /\ s_pc' = "raised"
    /\ s_exc' = exc

\* free_energy.py 267-281, rbfe.py 95-99: bind the potentials, build the Context.
\* ctxt = custom_ops.Context(x0, v0, box0, ...): every call of sample builds
\* its own Context from the InitialState.
new_context_cached(st, old) == IF old.step > 0 THEN old ELSE Context(st)
new_context(st, old) == Context(st)

SampleSetup ==
    /\ s_pc = "start"
    /\ ctxt' = new_context(initial_state, ctxt)
    /\ s_pc' = "burn_in"
    /\ UNCHANGED <<utilVars, mode, impl, rel, first_ret, runVars, genVars, initial_state, md_params, max_buffer_frames,
                   all_coords, all_boxes, batch_coords, batch_boxes, coords_type,
                   prod_calls, s_ret, s_exc>>

\* free_energy.py 284-288, rbfe.py 102-108: burn-in, output discarded.
SampleBurnIn ==
    /\ s_pc = "burn_in"
    /\ ctxt' = multiple_steps_U(ctxt, md_params.n_eq_steps, 0).ctxt
    /\ s_pc' = IF impl = "free_energy" THEN "eq_check" ELSE "production"
    /\ UNCHANGED <<utilVars, mode, impl, rel, first_ret, runVars, genVars, initial_state, md_params, max_buffer_frames,
                   all_coords, all_boxes, batch_coords, batch_boxes, coords_type,
                   prod_calls, s_ret, s_exc>>

\* free_energy.py 290: assert np.all(np.isfinite(ctxt.get_x_t())).
sample_eq_assert_none(c) == TRUE
sample_eq_assert(c) == get_x_t_finite(c)

SampleEqCheck ==
    /\ s_pc = "eq_check"
    /\ IF sample_eq_assert(ctxt)
       THEN /\ s_pc' = IF Truthy(max_buffer_frames) THEN "batched_init" ELSE "production"
            /\ UNCHANGED s_exc
       ELSE SampleRaise("AssertionError")
    /\ UNCHANGED <<utilVars, mode, impl, rel, first_ret, runVars, genVars, initial_state, md_params, max_buffer_frames,
                   ctxt, all_coords, all_boxes, batch_coords, batch_boxes, coords_type,
                   prod_calls, s_ret>>

\* free_energy.py 311 (else branch), rbfe.py 111-118: one engine call for the
\* whole trajectory.
SampleProduction ==
    /\ s_pc = "production"
    /\ LET r == run_production_steps(ctxt, md_params.n_frames * md_params.steps_per_frame,
                                     md_params.steps_per_frame)
       IN /\ ctxt' = r.ctxt
          /\ all_coords' = r.coords
          /\ all_boxes' = r.boxes
          /\ prod_calls' = Append(prod_calls, Len(r.coords))
    /\ coords_type' = "NDArray"
    /\ s_pc' = "post_check"
    /\ UNCHANGED <<utilVars, mode, impl, rel, first_ret, runVars, genVars, initial_state, md_params, max_buffer_frames,
                   batch_coords, batch_boxes, s_ret, s_exc>>

\* free_energy.py 303-305: all_coords = StoredArrays(); all_boxes_ = [];
\* the for statement creates the generator.
SampleBatchedInit ==
    /\ s_pc = "batched_init"
    /\ all_coords' = <<>>
    /\ all_boxes' = <<>>
    /\ coords_type' = "StoredArrays"
    /\ gen' = batches(md_params.n_frames, Val(max_buffer_frames))
    /\ s_pc' = "batched_loop"
    /\ UNCHANGED <<utilVars, mode, impl, rel, first_ret, runVars, gen_out, yielded, initial_state, md_params,
                   max_buffer_frames, ctxt, batch_coords, batch_boxes, prod_calls,
                   s_ret, s_exc>>

\* free_energy.py 307-308: "all_coords.extend(batch_coords)" and
\* "all_boxes_.extend(batch_boxes)".
extend_front(lst, batch) == batch \o lst
extend(lst, batch) == lst \o batch

\* free_energy.py 305-309: one pass of "for n_frames in batches(...)": next()
\* on the generator, then either the loop body (306-308), the loop's end (309)
\* or the generator's exception leaving sample.
SampleBatchedLoop ==
    /\ s_pc = "batched_loop"
    /\ LET nx == batches_next(gen)
       IN /\ gen' = nx.g
          /\ gen_out' = nx.kind
          /\ IF nx.kind = "yield"
             THEN LET r == run_production_steps(ctxt, nx.value * md_params.steps_per_frame,
                                                md_params.steps_per_frame)
                  IN /\ ctxt' = r.ctxt
                     /\ batch_coords' = r.coords
                     /\ batch_boxes' = r.boxes
                     /\ all_coords' = extend(all_coords, r.coords)
                     /\ all_boxes' = extend(all_boxes, r.boxes)
                     /\ prod_calls' = Append(prod_calls, Len(r.coords))
                     /\ UNCHANGED <<s_pc, s_exc>>
             ELSE IF nx.kind = "StopIteration"
             THEN /\ s_pc' = "post_check"
                  /\ UNCHANGED <<ctxt, batch_coords, batch_boxes, all_coords, all_boxes,
                                 prod_calls, s_exc>>
             ELSE /\ SampleRaise(nx.kind)
                  /\ UNCHANGED <<ctxt, batch_coords, batch_boxes, all_coords, all_boxes,
                                 prod_calls>>
    /\ UNCHANGED <<utilVars, mode, impl, rel, first_ret, runVars, yielded, initial_state, md_params, max_buffer_frames,
                   coords_type, s_ret>>

\* free_energy.py 313-316: the length assertions, then the finiteness assertion
\* on the last frame (all_coords[-1] of an empty trajectory is an IndexError).
\* rbfe.py 120-121: the length assertions only.
SamplePostCheck ==
    /\ s_pc = "post_check"
    /\ IF ~sample_length_asserts(all_coords, all_boxes, md_params.n_frames)
       THEN SampleRaise("AssertionError")
       ELSE IF impl = "rbfe"
       THEN s_pc' = "return" /\ UNCHANGED s_exc
       ELSE IF Len(all_coords) = 0
       THEN SampleRaise("IndexError")
       ELSE IF ~all_coords[Len(all_coords)].finite
       THEN SampleRaise("AssertionError")
       ELSE s_pc' = "return" /\ UNCHANGED s_exc
    /\ UNCHANGED <<utilVars, mode, impl, rel, first_ret, runVars, genVars, initial_state, md_params, max_buffer_frames,
                   ctxt, all_coords, all_boxes, batch_coords, batch_boxes, coords_type,
                   prod_calls, s_ret>>

\* free_energy.py 318, rbfe.py 123.
SampleReturn ==
    /\ s_pc = "return"
    /\ s_ret' = Some(sample_return(all_coords, all_boxes, batch_coords, batch_boxes))
    /\ s_pc' = "returned"
    /\ UNCHANGED <<utilVars, mode, impl, rel, first_ret, runVars, genVars, initial_state, md_params, max_buffer_frames,
                   ctxt, all_coords, all_boxes, batch_coords, batch_boxes, coords_type,
                   prod_calls, s_exc>>

\* A caller that invokes sample a second time with the same InitialState,
\* protocol and max_buffer_frames, after noting what the first call returned
\* or raised.  The locals of the first call are gone; the Context it built is
\* no longer referenced by anything the second call reads.
SampleAgain ==
    /\ mode = "sample"
    /\ s_pc \in {"returned", "raised"}
    /\ first_ret = None
    /\ first_ret' = Some([ret |-> s_ret, exc |-> s_exc, buffer |-> max_buffer_frames])
    /\ s_pc' = "start"
    /\ all_coords' = <<>>
    /\ all_boxes' = <<>>
    /\ batch_coords' = <<>>
    /\ batch_boxes' = <<>>
    /\ coords_type' = "unset"
    /\ prod_calls' = <<>>
    /\ s_ret' = None
    /\ s_exc' = "none"
    /\ gen' = NoGen
    /\ gen_out' = "none"
    /\ yielded' = <<>>
    /\ UNCHANGED <<utilVars, mode, impl, rel, runVars, initial_state, md_params,
                   max_buffer_frames, ctxt>>

\* A caller that repeats a batched call of free_energy.sample without
\* max_buffer_frames (same InitialState, same protocol).
SampleAgainUnbatched ==
    /\ mode = "sample" /\ impl = "free_energy"
    /\ s_pc \in {"returned", "raised"}
    /\ first_ret = None
    /\ max_buffer_frames # None
    /\ Val(max_buffer_frames) > 0
    /\ first_ret' = Some([ret |-> s_ret, exc |-> s_exc, buffer |-> max_buffer_frames])
    /\ max_buffer_frames' = None
    /\ s_pc' = "start"
    /\ all_coords' = <<>>
    /\ all_boxes' = <<>>
    /\ batch_coords' = <<>>
    /\ batch_boxes' = <<>>
    /\ coords_type' = "unset"
    /\ prod_calls' = <<>>
    /\ s_ret' = None
    /\ s_exc' = "none"
    /\ gen' = NoGen
    /\ gen_out' = "none"
    /\ yielded' = <<>>
    /\ UNCHANGED <<utilVars, mode, impl, rel, runVars, initial_state, md_params, ctxt>>

\* ---------------------------------------------- consumer of batches alone
\* list(batches(n, batch_size)): next() until the generator stops or raises.
BatchesNext ==
    /\ mode = "batches"
    /\ gen_out \in {"none", "yield"}
    /\ LET nx == batches_next(gen)
       IN /\ gen' = nx.g
          /\ gen_out' = nx.kind
          /\ yielded' = IF nx.kind = "yield" THEN Append(yielded, nx.value) ELSE yielded
    /\ UNCHANGED <<utilVars, mode, impl, rel, first_ret, sampleVars, runVars>>

\* ------------------------------------------------- the sequential runner
\* A trajectory (or box sequence) returned by one sample call is one object:
\* id is its identity (the lambda index whose sample call created it).
Traj(id, frames) == [id |-> id, frames |-> frames]

\* EnergyDecomposedState(frames, boxes, batch_u_fns)
EnergyDecomposedState(frames, boxes, batch_u_fns) ==
    [frames |-> frames, boxes |-> boxes, batch_u_fns |-> batch_u_fns]

\* compute_energy_decomposed_u_kln([state A, state B]): the tensor
\* u[energy function][sampled state][frame], summarised by the states whose
\* evaluators index its first axis and the trajectories that index its second.
compute_energy_decomposed_u_kln(state_pair) ==
    [fn |-> <<Val(state_pair[1]).batch_u_fns, Val(state_pair[2]).batch_u_fns>>,
     traj |-> <<Val(state_pair[1]).frames.id, Val(state_pair[2]).frames.id>>]

\* enumerate(initial_states): the index after lamb_idx (-1 before the loop).
enumerate_next_skip(i) == i + 2
enumerate_next(i) == i + 1

\* "if lamb_idx >= 2: tmp_states[lamb_idx - 2] = None"
evict_early(states, i) ==
    IF i >= 1 THEN [states EXCEPT ![i - 1 + 1] = None] ELSE states
evict_late(states, i) ==
    IF i > 2 THEN [states EXCEPT ![i - 2 + 1] = None] ELSE states
evict(states, i) ==
    IF i >= 2 THEN [states EXCEPT ![i - 2 + 1] = None] ELSE states

\* "state_pair = [tmp_states[lamb_idx - 1], tmp_states[lamb_idx]]"
state_pair_swapped(states, i) == <<states[i + 1], states[i - 1 + 1]>>
state_pair_of(states, i) == <<states[i - 1 + 1], states[i + 1]>>

L == Len(initial_states)

RunRaise(exc) ==
    /\ r_pc' = "raised"
    /\ r_exc' = exc

sampleLocals == <<ctxt, all_coords, all_boxes, batch_coords, batch_boxes, coords_type,
                  prod_calls, s_ret, s_exc>>

keep_idxs_assert_none(kept) == TRUE
\* free_energy.py 471-472: "if keep_idxs: assert all(np.array(keep_idxs) >= 0)";
\* TRUE when the statement passes.
keep_idxs_assert(kept) == kept = {} \/ \A k \in kept : k >= 0

\* free_energy.py 462-472: the lists, the window, "keep_idxs = keep_idxs or []"
\* and the assertion that no kept index is negative.
RunnerInit ==
    /\ mode = "estimate" /\ impl = "free_energy"
    /\ r_pc = "init"
    /\ stored_frames' = <<>>
    /\ stored_boxes' = <<>>
    /\ tmp_states' = [k \in 1..L |-> None]
    /\ u_kln_by_component_by_lambda' = <<>>
    /\ LET kept == IF keep_idxs = None THEN {} ELSE Val(keep_idxs)
       IN /\ keep_idxs' = Some(kept)
          /\ IF ~keep_idxs_assert(kept)
             THEN RunRaise("AssertionError")
             ELSE r_pc' = "loop" /\ UNCHANGED r_exc
    /\ UNCHANGED <<utilVars, mode, impl, rel, first_ret, genVars, sampleVars, initial_states, lamb_idx, cur_frames,
                   cur_boxes, cur_batch_U_fns, prev_frames, prev_boxes, prev_batch_U_fns,
                   agg_lamb_idx, all_dGs, all_errs, result, sample_log>>

\* free_energy.py 474, rbfe.py 302: the for statement takes the next state or
\* leaves the loop.
RunnerLoop ==
    /\ mode = "estimate"
    /\ r_pc = "loop"
    /\ IF enumerate_next(lamb_idx) < L
       THEN lamb_idx' = enumerate_next(lamb_idx) /\ r_pc' = "sample"
       ELSE UNCHANGED lamb_idx /\ r_pc' = "return"
    /\ UNCHANGED <<utilVars, mode, impl, rel, first_ret, genVars, sampleVars, initial_states, keep_idxs, cur_frames,
                   cur_boxes, cur_batch_U_fns, tmp_states, prev_frames, prev_boxes,
                   prev_batch_U_fns, stored_frames, stored_boxes,
                   u_kln_by_component_by_lambda, agg_lamb_idx, all_dGs, all_errs, result,
                   r_exc, sample_log>>

\* free_energy.py 477, rbfe.py 304: the call of sample(initial_state, md_params).
RunnerSampleCall ==
    /\ mode = "estimate"
    /\ r_pc = "sample"
    /\ s_pc' = "start"
    /\ initial_state' = initial_states[lamb_idx + 1]
    /\ max_buffer_frames' = None
    /\ ctxt' = [step |-> 0, diverge |-> 0]
    /\ all_coords' = <<>>
    /\ all_boxes' = <<>>
    /\ batch_coords' = <<>>
    /\ batch_boxes' = <<>>
    /\ coords_type' = "unset"
    /\ prod_calls' = <<>>
    /\ s_ret' = None
    /\ s_exc' = "none"
    /\ sample_log' = Append(sample_log, <<"begin", lamb_idx>>)
    /\ r_pc' = "sampling"
    /\ UNCHANGED <<utilVars, mode, impl, rel, first_ret, genVars, md_params, initial_states, keep_idxs, lamb_idx,
                   cur_frames, cur_boxes, cur_batch_U_fns, tmp_states, prev_frames,
                   prev_boxes, prev_batch_U_fns, stored_frames, stored_boxes,
                   u_kln_by_component_by_lambda, agg_lamb_idx, all_dGs, all_errs, result,
                   r_exc>>

\* free_energy.py 474-477, rbfe.py 302-304: the call of sample stands in no
\* try statement, so an exception of sample ends the loop and the estimate.
sample_raised_continue(exc) == [r_pc |-> "loop", r_exc |-> "none"]
sample_raised(exc) == [r_pc |-> "raised", r_exc |-> exc]

\* free_energy.py 477, rbfe.py 304: sample returns and "cur_frames, cur_boxes"
\* are bound, or its exception leaves the estimate.
RunnerSampleDone ==
    /\ mode = "estimate"
    /\ r_pc = "sampling"
    /\ s_pc \in {"returned", "raised"}
    /\ s_pc' = "idle"
    /\ IF s_pc = "returned"
       THEN /\ cur_frames' = Some(Traj(lamb_idx, Val(s_ret).coords))
            /\ cur_boxes' = Some(Traj(lamb_idx, Val(s_ret).boxes))
            /\ sample_log' = Append(sample_log, <<"end", lamb_idx>>)
            /\ r_pc' = IF impl = "free_energy" THEN "keep" ELSE "U_fns"
            /\ UNCHANGED r_exc
       ELSE /\ r_pc' = sample_raised(s_exc).r_pc
            /\ r_exc' = sample_raised(s_exc).r_exc
            /\ UNCHANGED <<cur_frames, cur_boxes, sample_log>>
    /\ UNCHANGED <<utilVars, mode, impl, rel, first_ret, genVars, initial_state, md_params, max_buffer_frames,
                   sampleLocals, initial_states, keep_idxs, lamb_idx, cur_batch_U_fns,
                   tmp_states, prev_frames, prev_boxes, prev_batch_U_fns, stored_frames,
                   stored_boxes, u_kln_by_component_by_lambda, agg_lamb_idx, all_dGs,
                   all_errs, result>>

\* "lamb_idx in keep_idxs": membership of the index itself (a negative entry
\* of keep_idxs is not counted from the end of the ladder).
in_keep_idxs_always(i, kept) == TRUE
in_keep_idxs(i, kept) == i \in kept

\* What "stored_frames.append(cur_frames); stored_boxes.append(cur_boxes)"
\* appends to the two lists: the objects themselves, no copy is made.
kept_objects_swapped(frames, boxes) == [to_frames |-> boxes, to_boxes |-> frames]
kept_objects(frames, boxes) == [to_frames |-> frames, to_boxes |-> boxes]

\* free_energy.py 481-483: "if lamb_idx in keep_idxs": append the trajectory
\* object and the box object themselves.
RunnerKeep ==
    /\ mode = "estimate" /\ impl = "free_energy"
    /\ r_pc = "keep"
    /\ IF in_keep_idxs(lamb_idx, Val(keep_idxs))
       THEN LET k == kept_objects(Val(cur_frames), Val(cur_boxes))
            IN /\ stored_frames' = Append(stored_frames, k.to_frames)
               /\ stored_boxes' = Append(stored_boxes, k.to_boxes)
       ELSE UNCHANGED <<stored_frames, stored_boxes>>
    /\ r_pc' = "evict"
    /\ UNCHANGED <<utilVars, mode, impl, rel, first_ret, genVars, sampleVars, initial_states, keep_idxs, lamb_idx,
                   cur_frames, cur_boxes, cur_batch_U_fns, tmp_states, prev_frames,
                   prev_boxes, prev_batch_U_fns, u_kln_by_component_by_lambda,
                   agg_lamb_idx, all_dGs, all_errs, result, r_exc, sample_log>>

\* free_energy.py 487-488
RunnerEvict ==
    /\ mode = "estimate" /\ impl = "free_energy"
    /\ r_pc = "evict"
    /\ tmp_states' = evict(tmp_states, lamb_idx)
    /\ r_pc' = "U_fns"
    /\ UNCHANGED <<utilVars, mode, impl, rel, first_ret, genVars, sampleVars, initial_states, keep_idxs, lamb_idx,
                   cur_frames, cur_boxes, cur_batch_U_fns, prev_frames, prev_boxes,
                   prev_batch_U_fns, stored_frames, stored_boxes,
                   u_kln_by_component_by_lambda, agg_lamb_idx, all_dGs, all_errs, result,
                   r_exc, sample_log>>

\* free_energy.py 490-491, rbfe.py 305-306: evaluators bound to the current
\* state's potentials.
RunnerUfns ==
    /\ mode = "estimate"
    /\ r_pc = "U_fns"
    /\ cur_batch_U_fns' = Some(lamb_idx)
    /\ r_pc' = IF impl = "free_energy" THEN "construct" ELSE "keep"
    /\ UNCHANGED <<utilVars, mode, impl, rel, first_ret, genVars, sampleVars, initial_states, keep_idxs, lamb_idx,
                   cur_frames, cur_boxes, tmp_states, prev_frames, prev_boxes,
                   prev_batch_U_fns, stored_frames, stored_boxes,
                   u_kln_by_component_by_lambda, agg_lamb_idx, all_dGs, all_errs, result,
                   r_exc, sample_log>>

\* free_energy.py 493
RunnerConstruct ==
    /\ mode = "estimate" /\ impl = "free_energy"
    /\ r_pc = "construct"
    /\ tmp_states' = [tmp_states EXCEPT ![lamb_idx + 1] =
           Some(EnergyDecomposedState(Val(cur_frames), Val(cur_boxes), Val(cur_batch_U_fns)))]
    /\ r_pc' = "pair"
    /\ UNCHANGED <<utilVars, mode, impl, rel, first_ret, genVars, sampleVars, initial_states, keep_idxs, lamb_idx,
                   cur_frames, cur_boxes, cur_batch_U_fns, prev_frames, prev_boxes,
                   prev_batch_U_fns, stored_frames, stored_boxes,
                   u_kln_by_component_by_lambda, agg_lamb_idx, all_dGs, all_errs, result,
                   r_exc, sample_log>>

\* free_energy.py 490-491, rbfe.py 305-306: the evaluators of state fn, one per
\* potential of initial_states[fn].
n_terms_of(fn) == initial_states[fn + 1].n_terms

\* compute_energy_decomposed_u_kln pairs the terms of its two states by
\* position and needs as many in one as in the other.
components_match(a, b) == a = b

\* free_energy.py 496-499: the pair analysis; an evicted (None) entry handed to
\* compute_energy_decomposed_u_kln raises.
RunnerPair ==
    /\ mode = "estimate" /\ impl = "free_energy"
    /\ r_pc = "pair"
    /\ IF lamb_idx > 0
       THEN LET state_pair == state_pair_of(tmp_states, lamb_idx)
            IN IF state_pair[1] = None \/ state_pair[2] = None
               THEN /\ RunRaise("AttributeError")
                    /\ UNCHANGED u_kln_by_component_by_lambda
               ELSE IF ~components_match(n_terms_of(Val(state_pair[1]).batch_u_fns),
                                         n_terms_of(Val(state_pair[2]).batch_u_fns))
               THEN /\ RunRaise("AssertionError")
                    /\ UNCHANGED u_kln_by_component_by_lambda
               ELSE /\ u_kln_by_component_by_lambda' =
                          Append(u_kln_by_component_by_lambda,
                                 compute_energy_decomposed_u_kln(state_pair))
                    /\ r_pc' = "loop"
                    /\ UNCHANGED r_exc
       ELSE /\ r_pc' = "loop"
            /\ UNCHANGED <<u_kln_by_component_by_lambda, r_exc>>
    /\ UNCHANGED <<utilVars, mode, impl, rel, first_ret, genVars, sampleVars, initial_states, keep_idxs, lamb_idx,
                   cur_frames, cur_boxes, cur_batch_U_fns, tmp_states, prev_frames,
                   prev_boxes, prev_batch_U_fns, stored_frames, stored_boxes, agg_lamb_idx,
                   all_dGs, all_errs, result, sample_log>>

\* free_energy.py 501 and 363-371: the runner returns (its locals die), the
\* aggregator binds the three results and starts its pair-BAR loop.
RunnerReturn ==
    /\ mode = "estimate" /\ impl = "free_energy"
    /\ r_pc = "return"
    /\ tmp_states' = <<>>
    /\ cur_frames' = None
    /\ cur_boxes' = None
    /\ cur_batch_U_fns' = None
    /\ all_dGs' = <<>>
    /\ all_errs' = <<>>
    /\ agg_lamb_idx' = 0 - 1
    /\ r_pc' = "bar_loop"
    /\ UNCHANGED <<utilVars, mode, impl, rel, first_ret, genVars, sampleVars, initial_states, keep_idxs, lamb_idx,
                   prev_frames, prev_boxes, prev_batch_U_fns, stored_frames, stored_boxes,
                   u_kln_by_component_by_lambda, result, r_exc, sample_log>>

\* The pair-BAR estimate of one adjacent pair: which pair the message names
\* and which tensor the works were taken from.
PairEstimate(idx, u_kln, df) ==
    [from |-> idx, to |-> idx + 1, u |-> u_kln, df |-> df, scale |-> "df/beta"]

\* The energy terms of a state, and the reduced energy of the frames of
\* trajectory traj under term c of the evaluators of state fn (one number per
\* frame; the frame axis is carried along unchanged by everything below).
Terms(n) == 1..n
U(c, fn, traj) == [c |-> c, fn |-> fn, traj |-> traj]

\* Sums and differences of energies, kept as sets of signed terms.
Pos(e) == {[sign |-> 1, e |-> e]}
Neg(a) == {[sign |-> 0 - t.sign, e |-> t.e] : t \in a}
Sub(a, b) == a \cup Neg(b)
SumOver(f) == UNION {f[c] : c \in DOMAIN f}

\* BAR(w_fwd, w_rev): the estimator applied to one pair of work arrays.
BAR(fwd, rev) == [w_fwd |-> fwd, w_rev |-> rev]

\* free_energy.py 375: "u_kln = u_kln_by_component.sum(0)", entry [k, l].
u_kln_sum(u, k, l) ==
    SumOver([c \in Terms(n_terms_of(u.fn[1])) |-> Pos(U(c, u.fn[k + 1], u.traj[l + 1]))])

\* free_energy.py 377-378: "w_fwd = u_kln[1, 0] - u_kln[0, 0]" and
\* "w_rev = u_kln[0, 1] - u_kln[1, 1]".
w_fwd_swapped(u) == Sub(u_kln_sum(u, 0, 1), u_kln_sum(u, 0, 0))
w_fwd(u) == Sub(u_kln_sum(u, 1, 0), u_kln_sum(u, 0, 0))
w_rev(u) == Sub(u_kln_sum(u, 0, 1), u_kln_sum(u, 1, 1))

\* free_energy.py 375-380: one BAR estimate, on the works of the summed tensor.
pair_df_by_component(u) ==
    [c \in Terms(n_terms_of(u.fn[1])) |->
        BAR(Sub(Pos(U(c, u.fn[2], u.traj[1])), Pos(U(c, u.fn[1], u.traj[1]))),
            Sub(Pos(U(c, u.fn[1], u.traj[2])), Pos(U(c, u.fn[2], u.traj[2]))))]
pair_df(u) == <<BAR(w_fwd(u), w_rev(u))>>

\* free_energy.py 373-387: one pass of "for lamb_idx, u_kln_by_component in
\* enumerate(u_kln_by_component_by_lambda)".
AggregatorBar ==
    /\ mode = "estimate" /\ impl = "free_energy"
    /\ r_pc = "bar_loop"
    /\ IF agg_lamb_idx + 1 < Len(u_kln_by_component_by_lambda)
       THEN LET i == agg_lamb_idx + 1
                u_kln == u_kln_by_component_by_lambda[i + 1]
                est == PairEstimate(i, u_kln, pair_df(u_kln))
            IN /\ agg_lamb_idx' = i
               /\ all_dGs' = Append(all_dGs, est)
               /\ all_errs' = Append(all_errs, est)
               /\ UNCHANGED r_pc
       ELSE /\ r_pc' = "diagnostics"
            /\ UNCHANGED <<agg_lamb_idx, all_dGs, all_errs>>
    /\ UNCHANGED <<utilVars, mode, impl, rel, first_ret, genVars, sampleVars, initial_states, keep_idxs, lamb_idx,
                   cur_frames, cur_boxes, cur_batch_U_fns, tmp_states, prev_frames,
                   prev_boxes, prev_batch_U_fns, stored_frames, stored_boxes,
                   u_kln_by_component_by_lambda, result, r_exc, sample_log>>

\* free_energy.py 390: np.array(lst).swapaxes(0, 1) on a list of n tensors;
\* for n = 0 the array has one axis and axis 1 is out of bounds.
swapaxes_raises_never(n) == FALSE
swapaxes_raises(n) == n = 0

\* free_energy.py 390-400: np.array(...).swapaxes(0, 1) needs two axes; the
\* array of an empty list has one, and numpy raises AxisError.
AggregatorDiagnostics ==
    /\ mode = "estimate" /\ impl = "free_energy"
    /\ r_pc = "diagnostics"
    /\ IF swapaxes_raises(Len(u_kln_by_component_by_lambda))
       THEN RunRaise("AxisError")
       ELSE r_pc' = "result" /\ UNCHANGED r_exc
    /\ UNCHANGED <<utilVars, mode, impl, rel, first_ret, genVars, sampleVars, initial_states, keep_idxs, lamb_idx,
                   cur_frames, cur_boxes, cur_batch_U_fns, tmp_states, prev_frames,
                   prev_boxes, prev_batch_U_fns, stored_frames, stored_boxes,
                   u_kln_by_component_by_lambda, agg_lamb_idx, all_dGs, all_errs, result,
                   sample_log>>

SimulationResult(dGs, errs, frames, boxes, states, protocol) ==
    [all_dGs |-> dGs, all_errs |-> errs, frames |-> frames, boxes |-> boxes,
     initial_states |-> states, md_params |-> protocol]

\* free_energy.py 402-432: the figures and the SimulationResult.
AggregatorResult ==
    /\ mode = "estimate" /\ impl = "free_energy"
    /\ r_pc = "result"
    /\ result' = Some(SimulationResult(all_dGs, all_errs, stored_frames, stored_boxes,
                                       initial_states, md_params))
    /\ r_pc' = "done"
    /\ UNCHANGED <<utilVars, mode, impl, rel, first_ret, genVars, sampleVars, initial_states, keep_idxs, lamb_idx,
                   cur_frames, cur_boxes, cur_batch_U_fns, tmp_states, prev_frames,
                   prev_boxes, prev_batch_U_fns, stored_frames, stored_boxes,
                   u_kln_by_component_by_lambda, agg_lamb_idx, all_dGs, all_errs, r_exc,
                   sample_log>>

\* rbfe.py 291: plt.subplots(num_rows, num_cols, ...) rejects a grid of 0
\* rows; otherwise (squeeze is on by default) all_axes has two axes only when
\* both counts exceed 1, one axis when exactly one of them is 1, none when
\* both are 1.
subplots_raises(num_rows) == num_rows = 0
all_axes_ndim(num_rows, num_cols) ==
    IF num_rows > 1 /\ num_cols > 1 THEN 2
    ELSE IF num_rows = 1 /\ num_cols = 1 THEN 0
    ELSE 1

\* ------------------------------ rbfe.py estimate_free_energy_given_initial_states
\* rbfe.py 277-300: the result lists, U_names from initial_states[0] (IndexError
\* on an empty ladder), the figure grid of len(initial_states) - 1 rows
\* (matplotlib rejects a grid of 0 rows with ValueError) and the "prev" locals.
RbfeInit ==
    /\ mode = "estimate" /\ impl = "rbfe"
    /\ r_pc = "init"
    /\ all_dGs' = <<>>
    /\ all_errs' = <<>>
    /\ stored_frames' = <<>>
    /\ stored_boxes' = <<>>
    /\ prev_frames' = None
    /\ prev_boxes' = None
    /\ prev_batch_U_fns' = None
    /\ IF L = 0 THEN RunRaise("IndexError")
       ELSE IF subplots_raises(L - 1) THEN RunRaise("ValueError")
       ELSE r_pc' = "loop" /\ UNCHANGED r_exc
    /\ UNCHANGED <<utilVars, mode, impl, rel, first_ret, genVars, sampleVars, initial_states, keep_idxs, lamb_idx,
                   cur_frames, cur_boxes, cur_batch_U_fns, tmp_states,
                   u_kln_by_component_by_lambda, agg_lamb_idx, result, sample_log>>

\* rbfe.py 308-310: "if lamb_idx in keep_idxs" (TypeError when keep_idxs is None).
RbfeKeep ==
    /\ mode = "estimate" /\ impl = "rbfe"
    /\ r_pc = "keep"
    /\ IF keep_idxs = None
       THEN /\ RunRaise("TypeError")
            /\ UNCHANGED <<stored_frames, stored_boxes>>
       ELSE /\ IF in_keep_idxs(lamb_idx, Val(keep_idxs))
               THEN LET k == kept_objects(Val(cur_frames), Val(cur_boxes))
                    IN /\ stored_frames' = Append(stored_frames, k.to_frames)
                       /\ stored_boxes' = Append(stored_boxes, k.to_boxes)
               ELSE UNCHANGED <<stored_frames, stored_boxes>>
            /\ r_pc' = "pair"
            /\ UNCHANGED r_exc
    /\ UNCHANGED <<utilVars, mode, impl, rel, first_ret, genVars, sampleVars, initial_states, keep_idxs, lamb_idx,
                   cur_frames, cur_boxes, cur_batch_U_fns, tmp_states, prev_frames,
                   prev_boxes, prev_batch_U_fns, u_kln_by_component_by_lambda,
                   agg_lamb_idx, all_dGs, all_errs, result, sample_log>>

\* rbfe.py 320-321: the works of one energy term, "cur_U_fn(prev_frames) -
\* prev_U_fn(prev_frames)" and "prev_U_fn(cur_frames) - cur_U_fn(cur_frames)"
\* (times beta: reduced).
fwd_delta_u(c, prev_fns, cur_fns, prev, cur) ==
    Sub(Pos(U(c, cur_fns, prev.id)), Pos(U(c, prev_fns, prev.id)))
rev_delta_u(c, prev_fns, cur_fns, prev, cur) ==
    Sub(Pos(U(c, prev_fns, cur.id)), Pos(U(c, cur_fns, cur.id)))

\* rbfe.py 329-331: BAR on the works summed over the terms.
total_df_of_components(all_fwd_delta_us, all_rev_delta_us) ==
    [c \in DOMAIN all_fwd_delta_us |-> BAR(all_fwd_delta_us[c], all_rev_delta_us[c])]
total_df(all_fwd_delta_us, all_rev_delta_us) ==
    <<BAR(SumOver(all_fwd_delta_us), SumOver(all_rev_delta_us))>>

\* rbfe.py 319: "zip(prev_batch_U_fns, cur_batch_U_fns)" stops at the end of
\* the shorter list.
zip_len(a, b) == IF a < b THEN a ELSE b

\* rbfe.py 323 and 333: the figure has one column per potential of
\* initial_states[0] and one more for the total; a pair with more terms than
\* that indexes past the last column (IndexError).
\* rbfe.py 323: "all_axes[lamb_idx - 1][u_idx]" needs an all_axes of two axes;
\* with one axis all_axes[0] is an Axes object and subscripting it is a
\* TypeError (a ladder of two states has a grid of one row).
\* rbfe.py 312-353: for lamb_idx > 0 the works of every term between the
\* previous and the current state, BAR on their sums, one entry appended to
\* all_dGs and all_errs.
RbfePair ==
    /\ mode = "estimate" /\ impl = "rbfe"
    /\ r_pc = "pair"
    /\ IF lamb_idx > 0 /\ all_axes_ndim(L - 1, n_terms_of(0) + 1) < 2
       THEN /\ RunRaise("TypeError")
            /\ UNCHANGED <<all_dGs, all_errs>>
       ELSE IF lamb_idx > 0 /\ zip_len(n_terms_of(Val(prev_batch_U_fns)),
                                       n_terms_of(Val(cur_batch_U_fns))) > n_terms_of(0)
       THEN /\ RunRaise("IndexError")
            /\ UNCHANGED <<all_dGs, all_errs>>
       ELSE IF lamb_idx > 0
       THEN LET u == [fn |-> <<Val(prev_batch_U_fns), Val(cur_batch_U_fns)>>,
                      traj |-> <<Val(prev_frames).id, Val(cur_frames).id>>]
                paired == Terms(zip_len(n_terms_of(Val(prev_batch_U_fns)),
                                        n_terms_of(Val(cur_batch_U_fns))))
                all_fwd_delta_us ==
                    [c \in paired |-> fwd_delta_u(c, Val(prev_batch_U_fns), Val(cur_batch_U_fns),
                                                 Val(prev_frames), Val(cur_frames))]
                all_rev_delta_us ==
                    [c \in paired |-> rev_delta_u(c, Val(prev_batch_U_fns), Val(cur_batch_U_fns),
                                                 Val(prev_frames), Val(cur_frames))]
                est == PairEstimate(lamb_idx - 1, u, total_df(all_fwd_delta_us, all_rev_delta_us))
            IN /\ all_dGs' = Append(all_dGs, est)
               /\ all_errs' = Append(all_errs, est)
               /\ r_pc' = "shift" /\ UNCHANGED r_exc
       ELSE /\ UNCHANGED <<all_dGs, all_errs>>
            /\ r_pc' = "shift" /\ UNCHANGED r_exc
    /\ UNCHANGED <<utilVars, mode, impl, rel, first_ret, genVars, sampleVars, initial_states, keep_idxs, lamb_idx,
                   cur_frames, cur_boxes, cur_batch_U_fns, tmp_states, prev_frames,
                   prev_boxes, prev_batch_U_fns, stored_frames, stored_boxes,
                   u_kln_by_component_by_lambda, agg_lamb_idx, result, sample_log>>

\* rbfe.py 355-357
RbfeShift ==
    /\ mode = "estimate" /\ impl = "rbfe"
    /\ r_pc = "shift"
    /\ prev_frames' = cur_frames
    /\ prev_boxes' = cur_boxes
    /\ prev_batch_U_fns' = cur_batch_U_fns
    /\ r_pc' = "loop"
    /\ UNCHANGED <<utilVars, mode, impl, rel, first_ret, genVars, sampleVars, initial_states, keep_idxs, lamb_idx,
                   cur_frames, cur_boxes, cur_batch_U_fns, tmp_states, stored_frames,
                   stored_boxes, u_kln_by_component_by_lambda, agg_lamb_idx, all_dGs,
                   all_errs, result, r_exc, sample_log>>

\* rbfe.py 359-365
RbfeResult ==
    /\ mode = "estimate" /\ impl = "rbfe"
    /\ r_pc = "return"
    /\ result' = Some(SimulationResult(all_dGs, all_errs, stored_frames, stored_boxes,
                                       initial_states, md_params))
    /\ r_pc' = "done"
    /\ UNCHANGED <<utilVars, mode, impl, rel, first_ret, genVars, sampleVars, initial_states, keep_idxs, lamb_idx,
                   cur_frames, cur_boxes, cur_batch_U_fns, tmp_states, prev_frames,
                   prev_boxes, prev_batch_U_fns, stored_frames, stored_boxes,
                   u_kln_by_component_by_lambda, agg_lamb_idx, all_dGs, all_errs, r_exc,
                   sample_log>>

\* ---------------------------------------- rbfe.py estimate_relative_free_energy
\* Before any call: no protocol, no exception, no call in progress.
NoProtocol == [n_frames |-> 0, n_eq_steps |-> 0, steps_per_frame |-> 0]
NoExc == [type |-> "none", initial_states |-> <<>>, protocol |-> NoProtocol,
          message |-> "none", cause |-> "none"]
NoRel == [pc |-> "idle", keep_idxs |-> None, n_frames |-> 0, ret |-> None, exc |-> NoExc]

\* rbfe.py 434: SimulationProtocol(n_frames=n_frames, burn_in=10000,
\* steps_per_frame=1000).
DefaultBurnIn == 10000
DefaultStepsPerFrame == 1000
SimulationProtocol(n_frames) ==
    [n_frames |-> n_frames, n_eq_steps |-> DefaultBurnIn,
     steps_per_frame |-> DefaultStepsPerFrame]

\* rbfe.py 436-437: "if keep_idxs is None: keep_idxs = [0, -1]".
default_keep_idxs == {0, 0 - 1}

\* rbfe.py 235-239 and 449: SimulationException(initial_states, protocol,
\* combined_prefix), raised "from old_exc".
SimulationException(states, protocol, message, old_exc) ==
    [type |-> "SimulationException", initial_states |-> states, protocol |-> protocol,
     message |-> message, cause |-> old_exc]

\* What the except clause of lines 447-449 raises for the exception old_exc
\* that left the estimate.
reraise_bare(states, protocol, message, old_exc) ==
    [type |-> old_exc, initial_states |-> <<>>, protocol |-> NoProtocol,
     message |-> "none", cause |-> "none"]
reraise(states, protocol, message, old_exc) ==
    SimulationException(states, protocol, message, old_exc)

\* rbfe.py 424-439: the ladder (initial_states, built by setup_initial_states
\* for the lambda schedule), the protocol, the default of keep_idxs and the
\* assertion on its length; an AssertionError here is outside the try
\* statement.  Then line 443 calls estimate_free_energy_given_initial_states.
RelSetup ==
    /\ mode = "estimate" /\ impl = "rbfe"
    /\ rel.pc = "start"
    /\ md_params' = SimulationProtocol(rel.n_frames)
    /\ LET kept == IF rel.keep_idxs = None THEN default_keep_idxs ELSE Val(rel.keep_idxs)
       IN IF ~(Cardinality(kept) <= L)
          THEN /\ rel' = [rel EXCEPT !.pc = "raised",
                                     !.exc = [NoExc EXCEPT !.type = "AssertionError"]]
               /\ UNCHANGED <<keep_idxs, r_pc>>
          ELSE /\ rel' = [rel EXCEPT !.pc = "running"]
               /\ keep_idxs' = Some(kept)
               /\ r_pc' = "init"
    /\ UNCHANGED <<utilVars, mode, impl, first_ret, genVars, s_pc, initial_state, max_buffer_frames,
                   sampleLocals, initial_states, lamb_idx, cur_frames, cur_boxes,
                   cur_batch_U_fns, tmp_states, prev_frames, prev_boxes, prev_batch_U_fns,
                   stored_frames, stored_boxes, u_kln_by_component_by_lambda,
                   agg_lamb_idx, all_dGs, all_errs, result, r_exc, sample_log>>

\* rbfe.py 443-445: the estimate returned; its SimulationResult is returned.
RelReturn ==
    /\ mode = "estimate" /\ impl = "rbfe"
    /\ rel.pc = "running"
    /\ r_pc = "done"
    /\ rel' = [rel EXCEPT !.pc = "returned", !.ret = result]
    /\ UNCHANGED <<utilVars, mode, impl, first_ret, genVars, sampleVars, runVars>>

\* rbfe.py 447-449: "except Exception as old_exc: raise SimulationException(
\* initial_states, protocol, combined_prefix) from old_exc".
RelExcept ==
    /\ mode = "estimate" /\ impl = "rbfe"
    /\ rel.pc = "running"
    /\ r_pc = "raised"
    /\ rel' = [rel EXCEPT !.pc = "raised",
                          !.exc = reraise(initial_states, md_params, "combined_prefix", r_exc)]
    /\ UNCHANGED <<utilVars, mode, impl, first_ret, genVars, sampleVars, runVars>>

\* ---------------------------------------------------------------- inputs
DivergeSteps == 0..(MaxEqSteps + MaxFrames * MaxStepsPerFrame)
\* An InitialState: the step at which its coordinates become non-finite (0:
\* never) and the number of its potentials.
InitialStates == [diverge : DivergeSteps, n_terms : {NumTerms}]
NoState == [diverge |-> 0, n_terms |-> 0]
MDParams == [n_frames : 0..MaxFrames, n_eq_steps : 0..MaxEqSteps,
             steps_per_frame : 0..MaxStepsPerFrame]
BufferArgs == {None} \cup {Some(k) : k \in (0 - 1)..MaxBuffer}

NoCtxt == [step |-> 0, diverge |-> 0]

\* No helper function is being called.
NoUtil ==
    /\ prog = "none"
    /\ frame = <<>>
    /\ out = None

SampleLocalsInit ==
    /\ ctxt = NoCtxt
    /\ all_coords = <<>>
    /\ all_boxes = <<>>
    /\ batch_coords = <<>>
    /\ batch_boxes = <<>>
    /\ coords_type = "unset"
    /\ prod_calls = <<>>
    /\ s_ret = None
    /\ s_exc = "none"

RunLocalsInit ==
    /\ lamb_idx = 0 - 1
    /\ cur_frames = None
    /\ cur_boxes = None
    /\ cur_batch_U_fns = None
    /\ tmp_states = <<>>
    /\ prev_frames = None
    /\ prev_boxes = None
    /\ prev_batch_U_fns = None
    /\ stored_frames = <<>>
    /\ stored_boxes = <<>>
    /\ u_kln_by_component_by_lambda = <<>>
    /\ agg_lamb_idx = 0 - 1
    /\ all_dGs = <<>>
    /\ all_errs = <<>>
    /\ result = None
    /\ r_exc = "none"
    /\ sample_log = <<>>

NoRun ==
    /\ r_pc = "idle"
    /\ initial_states = <<>>
    /\ keep_idxs = None
    /\ RunLocalsInit


InitBatches ==
    /\ NoUtil
    /\ rel = NoRel
    /\ first_ret = None
    /\ mode = "batches"
    /\ impl = "free_energy"
    /\ \E n \in (0 - 1)..(MaxFrames + 1), bs \in (0 - 1)..MaxBuffer : gen = batches(n, bs)
    /\ gen_out = "none"
    /\ yielded = <<>>
    /\ s_pc = "idle"
    /\ initial_state = NoState
    /\ md_params = [n_frames |-> 0, n_eq_steps |-> 0, steps_per_frame |-> 0]
    /\ max_buffer_frames = None
    /\ SampleLocalsInit
    /\ NoRun

InitSample ==
    /\ NoUtil
    /\ rel = NoRel
    /\ first_ret = None
    /\ mode = "sample"
    /\ impl \in {"free_energy", "rbfe"}
    /\ gen = NoGen
    /\ gen_out = "none"
    /\ yielded = <<>>
    /\ s_pc = "start"
    /\ initial_state \in InitialStates
    /\ md_params \in MDParams
    /\ max_buffer_frames \in (IF impl = "free_energy" THEN BufferArgs ELSE {None})
    /\ SampleLocalsInit
    /\ NoRun

\* Ladders of the estimate: each state either never diverges or diverges at
\* step 1, which is in the burn-in of the first protocol below and in the
\* production of the second.
LadderStates == [diverge : {0, 1}, n_terms : {NumTerms}]
\* Ladders whose states do not all have the same number of potentials (none
\* of them diverges).
MixedStates == [diverge : {0}, n_terms : 1..NumTerms]
LadderMDParams == {[n_frames |-> 2, n_eq_steps |-> 1, steps_per_frame |-> 1],
                   [n_frames |-> 1, n_eq_steps |-> 0, steps_per_frame |-> 2]}
KeepIdxsArgs(len) == {None} \cup {Some(S) : S \in SUBSET ((0 - 1)..(len - 1))}

InitEstimate ==
    /\ NoUtil
    /\ rel = NoRel
    /\ first_ret = None
    /\ mode = "estimate"
    /\ impl \in {"free_energy", "rbfe"}
    /\ gen = NoGen
    /\ gen_out = "none"
    /\ yielded = <<>>
    /\ s_pc = "idle"
    /\ initial_state = NoState
    /\ md_params \in LadderMDParams
    /\ max_buffer_frames = None
    /\ SampleLocalsInit
    /\ r_pc = "init"
    /\ \E len \in 0..MaxL :
          \/ /\ initial_states \in [1..len -> LadderStates]
             /\ keep_idxs \in KeepIdxsArgs(len)
          \/ /\ initial_states \in [1..len -> MixedStates]
             /\ keep_idxs = Some({})
    /\ RunLocalsInit

\* A call of estimate_relative_free_energy: the ladder is the one built for
\* the lambda schedule, keep_idxs and n_frames are the caller's arguments.
InitRelative ==
    /\ NoUtil
    /\ first_ret = None
    /\ mode = "estimate"
    /\ impl = "rbfe"
    /\ gen = NoGen
    /\ gen_out = "none"
    /\ yielded = <<>>
    /\ s_pc = "idle"
    /\ initial_state = NoState
    /\ md_params = NoProtocol
    /\ max_buffer_frames = None
    /\ SampleLocalsInit
    /\ r_pc = "idle"
    /\ keep_idxs = None
    /\ \E len \in 0..MaxL :
          /\ initial_states \in [1..len -> {[diverge |-> 0, n_terms |-> NumTerms]}]
          /\ \E kept \in KeepIdxsArgs(len), n \in 1..2 :
                 rel = [NoRel EXCEPT !.pc = "start", !.keep_idxs = kept, !.n_frames = n]
    /\ RunLocalsInit

Init == InitBatches \/ InitSample \/ InitEstimate \/ InitRelative

Next ==
    \/ BatchesNext
    \/ SampleSetup
    \/ SampleBurnIn
    \/ SampleEqCheck
    \/ SampleProduction
    \/ SampleBatchedInit
    \/ SampleBatchedLoop
    \/ SamplePostCheck
    \/ SampleReturn
    \/ RunnerInit
    \/ RunnerLoop
    \/ RunnerSampleCall
    \/ RunnerSampleDone
    \/ RunnerKeep
    \/ RunnerEvict
    \/ RunnerUfns
    \/ RunnerConstruct
    \/ RunnerPair
    \/ RunnerReturn
    \/ AggregatorBar
    \/ AggregatorDiagnostics
    \/ AggregatorResult
    \/ RbfeInit
    \/ RbfeKeep
    \/ RbfePair
    \/ RbfeShift
    \/ RbfeResult
    \/ RelSetup
    \/ RelReturn
    \/ RelExcept
    \/ SampleAgain
    \/ SampleAgainUnbatched

Spec == Init /\ [][Next]_vars

\* ====================================================== helper functions
\* The pipeline above is not running while a helper is called on its own.
CoreIdle ==
    /\ mode = "util"
    /\ impl = "free_energy"
    /\ rel = NoRel
    /\ first_ret = None
    /\ gen = NoGen
    /\ gen_out = "none"
    /\ yielded = <<>>
    /\ s_pc = "idle"
    /\ initial_state = NoState
    /\ md_params = NoProtocol
    /\ max_buffer_frames = None
    /\ SampleLocalsInit
    /\ NoRun

\* Sequences over S of length 0..n.
SeqsUpTo(S, n) == UNION {[1..k -> S] : k \in 0..n}

\* --------------------------------------------------- rbfe.py get_batch_U_fns
\* bp_impl.execute(x, box, lamb) returns (du_dx, du_dl, U); U is the energy of
\* potential bp at frame x in box box.
execute(bp, x, box, lamb) == [bp |-> bp, x |-> x, box |-> box, lamb |-> lamb]

\* rbfe.py 79: "functools.partial(batch_U_fn, bp_impl=bp)" binds the value bp
\* has when the evaluator is made; an evaluator without a bound bp_impl reads
\* the loop variable when it is called.
partial_unbound(bp) == [bp_impl |-> None]
partial(bp) == [bp_impl |-> Some(bp)]

\* rbfe.py 70-76: the evaluator called on (xs, boxes); loop_bp is the value of
\* the loop variable bp at the time of the call.
batch_U_fn(f, xs, boxes, loop_bp, lamb) ==
    LET bp_impl == IF f.bp_impl = None THEN loop_bp ELSE Val(f.bp_impl)
    IN [j \in 1..zip_len(Len(xs), Len(boxes)) |-> execute(bp_impl, xs[j], boxes[j], lamb)]

\* rbfe.py 66-79: one pass of "for bp in bps".
GetBatchUFnsLoop ==
    /\ prog = "get_batch_U_fns"
    /\ frame.pc = "loop"
    /\ IF frame.i < Len(frame.bps)
       THEN frame' = [frame EXCEPT !.i = frame.i + 1,
                                   !.bp = frame.bps[frame.i + 1],
                                   !.all_U_fns = Append(frame.all_U_fns,
                                                        partial(frame.bps[frame.i + 1]))]
       ELSE frame' = [frame EXCEPT !.pc = "return"]
    /\ UNCHANGED <<coreVars, prog, out>>

\* rbfe.py 80: "return all_U_fns".
GetBatchUFnsReturn ==
    /\ prog = "get_batch_U_fns"
    /\ frame.pc = "return"
    /\ out' = Some(frame.all_U_fns)
    /\ frame' = [frame EXCEPT !.pc = "returned"]
    /\ UNCHANGED <<coreVars, prog>>

\* rbfe.py 320-321: the caller applies the evaluators to frames and boxes.
GetBatchUFnsCall ==
    /\ prog = "get_batch_U_fns"
    /\ frame.pc = "returned"
    /\ frame' = [frame EXCEPT
                   !.pc = "called",
                   !.Us = [k \in 1..Len(Val(out)) |->
                              batch_U_fn(Val(out)[k], frame.xs, frame.boxes, frame.bp,
                                         frame.lamb)]]
    /\ UNCHANGED <<coreVars, prog, out>>

InitGetBatchUFns ==
    /\ prog = "get_batch_U_fns"
    /\ out = None
    /\ \E bps \in SeqsUpTo(1..NumTerms, NumTerms), lamb \in {0, 1},
          n \in 0..MaxFrames, m \in 0..MaxFrames :
          frame = [pc |-> "loop", bps |-> bps, lamb |-> lamb, i |-> 0, bp |-> 0,
                   all_U_fns |-> <<>>, xs |-> [j \in 1..n |-> j],
                   boxes |-> [j \in 1..m |-> j], Us |-> <<>>]

\* ------------------------------------------- free_energy.py image_frames
\* A frame is an array object: id names the coordinates it was given, state
\* what was done to them, ok whether its shape is (N, 3).
Frame(id, ok) == [id |-> id, state |-> "input", ok |-> ok, box |-> 0]

\* free_energy.py 92: "np.array(boxes).shape[1:] == (3, 3)"; the array of an
\* empty list has shape (0,), that of boxes of another shape a different tail.
boxes_are_3x3(boxes) == boxes # <<>> /\ \A k \in 1..Len(boxes) : boxes[k] = "3x3"

\* free_energy.py 93: "len(frames) == len(boxes)".
lengths_match_any(frames, boxes) == TRUE
lengths_match(frames, boxes) == Len(frames) = Len(boxes)

\* free_energy.py 95: "next(p for p in potentials if isinstance(p, HarmonicBond))",
\* TRUE when the generator has an element (StopIteration otherwise).
has_harmonic_bond(potentials) == \E k \in 1..Len(potentials) : potentials[k] = "HarmonicBond"

\* free_energy.py 103: "centered_frames = frame - offset" makes a new array
\* and leaves frame as it is ("frame -= offset" would change the input).
subtract_offset_in_place(fr) ==
    [new |-> [fr EXCEPT !.state = "centered"], old |-> [fr EXCEPT !.state = "centered"]]
subtract_offset(fr) == [new |-> [fr EXCEPT !.state = "centered"], old |-> fr]

\* free_energy.py 105: the centred frame imaged into box i.
imaged_frame(fr, i) == [id |-> fr.id, state |-> "imaged", ok |-> fr.ok, box |-> i]

\* free_energy.py 92-107: what the call raises ("none" when it returns), what
\* it returns and the caller's frames after it; rows of np.empty_like(frames) that the loop over
\* zip(frames, boxes) does not reach stay uninitialized.
image_frames(potentials, frames, boxes) ==
    LET n == zip_len(Len(frames), Len(boxes))
        bad == {i \in 1..n : ~frames[i].ok}
        uninit == [id |-> 0, state |-> "uninitialized", ok |-> TRUE, box |-> 0]
    IN IF ~boxes_are_3x3(boxes)
       THEN [exc |-> "AssertionError", ret |-> None, frames |-> frames]
       ELSE IF ~lengths_match(frames, boxes)
       THEN [exc |-> "AssertionError", ret |-> None, frames |-> frames]
       ELSE IF ~has_harmonic_bond(potentials)
       THEN [exc |-> "StopIteration", ret |-> None, frames |-> frames]
       ELSE IF bad # {}
       THEN [exc |-> "AssertionError", ret |-> None,
             frames |-> [i \in 1..Len(frames) |->
                            IF \E b \in bad : b > i THEN subtract_offset(frames[i]).old
                            ELSE frames[i]]]
       ELSE [exc |-> "none",
             ret |-> Some([i \in 1..Len(frames) |->
                              IF i <= n THEN imaged_frame(subtract_offset(frames[i]).new, i)
                              ELSE uninit]),
             frames |-> [i \in 1..Len(frames) |->
                            IF i <= n THEN subtract_offset(frames[i]).old ELSE frames[i]]]

\* The call of image_frames(initial_state, frames, boxes).
ImageFramesCall ==
    /\ prog = "image_frames"
    /\ frame.pc = "call"
    /\ LET r == image_frames(frame.potentials, frame.frames, frame.boxes)
       IN /\ out' = Some([exc |-> r.exc, ret |-> r.ret])
          /\ frame' = [frame EXCEPT !.pc = "done", !.frames = r.frames]
    /\ UNCHANGED <<coreVars, prog>>

InitImageFrames ==
    /\ prog = "image_frames"
    /\ out = None
    /\ \E potentials \in SeqsUpTo({"HarmonicBond", "Nonbonded"}, NumTerms),
          oks \in SeqsUpTo(BOOLEAN, MaxFrames),
          boxes \in SeqsUpTo({"3x3", "2x2"}, MaxFrames) :
          LET frames == [i \in 1..Len(oks) |-> Frame(i, oks[i])]
          IN frame = [pc |-> "call", potentials |-> potentials, frames |-> frames,
                      boxes |-> boxes, given |-> frames]

\* --------------------------------------- water_sampling_mc.py image_xvb
\* CoordsVelBox(coords, velocities, box)
CoordsVelBox(coords, velocities, box) ==
    [coords |-> coords, velocities |-> velocities, box |-> box]

\* water_sampling_mc.py 31: the state image_xvb returns.
image_xvb_return_zero_v(new_coords, xvb_t) ==
    CoordsVelBox(new_coords, [id |-> 0], xvb_t.box)
image_xvb_return(new_coords, xvb_t) ==
    CoordsVelBox(new_coords, xvb_t.velocities, xvb_t.box)

\* water_sampling_mc.py 29-31: image_frames on the one frame and the one box
\* of the state; its exception, if any, leaves image_xvb.
ImageXvbCall ==
    /\ prog = "image_xvb"
    /\ frame.pc = "call"
    /\ LET xvb_t == frame.xvb_t
           r == image_frames(frame.potentials, <<xvb_t.coords>>, <<xvb_t.box.shape>>)
       IN /\ out' = Some([exc |-> r.exc,
                          ret |-> IF r.exc = "none"
                                  THEN Some(image_xvb_return(Val(r.ret)[1], xvb_t))
                                  ELSE None])
          /\ frame' = [frame EXCEPT !.pc = "done", !.xvb_t.coords = r.frames[1]]
    /\ UNCHANGED <<coreVars, prog>>

InitImageXvb ==
    /\ prog = "image_xvb"
    /\ out = None
    /\ \E potentials \in SeqsUpTo({"HarmonicBond", "Nonbonded"}, NumTerms),
          ok \in BOOLEAN, v \in 1..2, b \in 1..2, shape \in {"3x3", "2x2"} :
          LET xvb_t == CoordsVelBox(Frame(1, ok), [id |-> v], [id |-> b, shape |-> shape])
          IN frame = [pc |-> "call", potentials |-> potentials, xvb_t |-> xvb_t,
                      given |-> xvb_t]

\* ------------------------------------ water_sampling_mc.py test_exchange
\* water_sampling_mc.py 156: "equilibration_steps = 50000".
equilibration_steps == 50000

\* A state (CoordsVelBox) made by a move or by imaging: a new object, whose
\* coordinates may or may not stay below the bound of the assertion of
\* line 175.
NewStates(id) == {[id |-> id, big |-> b] : b \in BOOLEAN}

\* One entry of the driver's history.
Event(ev, n_steps, idx, src, dst) ==
    [ev |-> ev, n_steps |-> n_steps, idx |-> idx, src |-> src, dst |-> dst]

\* water_sampling_mc.py 164: "npt_mover.n_steps = args.md_steps_per_batch".
batch_n_steps_stale(md_steps_per_batch) == equilibration_steps
batch_n_steps(md_steps_per_batch) == md_steps_per_batch

\* range(n) has n elements, none for n <= 0.
range_len(n) == IF n > 0 THEN n ELSE 0

\* water_sampling_mc.py 138-164: the first imaging, the equilibration move of
\* the NPT mover, then n_steps set for the batches.
DriverEquilibrate ==
    /\ prog = "test_exchange"
    /\ frame.pc = "start"
    /\ \E imaged \in NewStates(1), moved \in NewStates(2) :
          frame' = [frame EXCEPT
                       !.pc = "loop",
                       !.xvb_t = moved,
                       !.n_steps = batch_n_steps(frame.md_steps_per_batch),
                       !.log = <<Event("image", 0, 0 - 1, 0, imaged.id),
                                 Event("npt", equilibration_steps, 0 - 1, imaged.id,
                                       moved.id)>>]
    /\ UNCHANGED <<coreVars, prog, out>>

\* water_sampling_mc.py 168-171: the for statement takes the next idx, the
\* density is computed and the state re-imaged; after the last batch the
\* loop ends.
DriverLoop ==
    /\ prog = "test_exchange"
    /\ frame.pc = "loop"
    /\ IF frame.idx + 1 < MaxBatches
       THEN \E imaged \in NewStates(Len(frame.log) + 1) :
               frame' = [frame EXCEPT
                            !.pc = "mc",
                            !.idx = frame.idx + 1,
                            !.j = 0,
                            !.xvb_t = imaged,
                            !.log = Append(frame.log,
                                           Event("image", 0, frame.idx + 1,
                                                 frame.xvb_t.id, imaged.id))]
       ELSE frame' = [frame EXCEPT !.pc = "close"]
    /\ UNCHANGED <<coreVars, prog, out>>

\* water_sampling_mc.py 174-176: one pass of "for _ in range(mc_steps_per_batch)":
\* the assertion on the coordinates, then the exchange move.
DriverMc ==
    /\ prog = "test_exchange"
    /\ frame.pc = "mc"
    /\ IF frame.j < range_len(frame.mc_steps_per_batch)
       THEN LET checked == Append(frame.log,
                                  Event("assert", 0, frame.idx, frame.xvb_t.id,
                                        frame.xvb_t.id))
            IN IF frame.xvb_t.big
               THEN /\ frame' = [frame EXCEPT !.pc = "raised", !.log = checked]
                    /\ out' = Some("AssertionError")
               ELSE /\ \E moved \in NewStates(Len(checked) + 1) :
                          frame' = [frame EXCEPT
                                       !.j = frame.j + 1,
                                       !.xvb_t = moved,
                                       !.log = Append(checked,
                                                      Event("mc", 1, frame.idx,
                                                            frame.xvb_t.id, moved.id))]
                    /\ UNCHANGED out
       ELSE /\ frame' = [frame EXCEPT !.pc = "report"]
            /\ UNCHANGED out
    /\ UNCHANGED <<coreVars, prog>>

\* water_sampling_mc.py 180-187: the occupancy of the state after the MC moves
\* is computed and printed, and every tenth batch the frame is written.
DriverReport ==
    /\ prog = "test_exchange"
    /\ frame.pc = "report"
    /\ frame' = [frame EXCEPT
                   !.pc = "md",
                   !.written = IF frame.idx % 10 = 0 THEN Append(frame.written, frame.xvb_t.id)
                               ELSE frame.written,
                   !.log = Append(frame.log,
                                  Event("occupancy", 0, frame.idx, frame.xvb_t.id,
                                        frame.xvb_t.id))]
    /\ UNCHANGED <<coreVars, prog, out>>

\* water_sampling_mc.py 192: "xvb_t = npt_mover.move(xvb_t)".
DriverMd ==
    /\ prog = "test_exchange"
    /\ frame.pc = "md"
    /\ \E moved \in NewStates(Len(frame.log) + 1) :
          frame' = [frame EXCEPT
                       !.pc = "loop",
                       !.xvb_t = moved,
                       !.log = Append(frame.log,
                                      Event("npt", frame.n_steps, frame.idx,
                                            frame.xvb_t.id, moved.id))]
    /\ UNCHANGED <<coreVars, prog, out>>

\* water_sampling_mc.py 194: "writer.close()".
DriverClose ==
    /\ prog = "test_exchange"
    /\ frame.pc = "close"
    /\ frame' = [frame EXCEPT !.pc = "done"]
    /\ out' = Some("none")
    /\ UNCHANGED <<coreVars, prog>>

InitDriver ==
    /\ prog = "test_exchange"
    /\ out = None
    /\ \E mc \in (0 - 1)..MaxMcSteps, md \in 1..MaxMdSteps :
          frame = [pc |-> "start", mc_steps_per_batch |-> mc, md_steps_per_batch |-> md,
                   idx |-> 0 - 1, j |-> 0, xvb_t |-> [id |-> 0, big |-> FALSE],
                   n_steps |-> 0, log |-> <<>>, written |-> <<>>]

\* ------------------------------------------- bonded.py generate_vd_idxs
\* Bounds of the molecules and pattern lists: atoms 0..MaxAtoms-1, at most
\* MaxPatterns patterns, at most MaxMatches entries in a molecule's match table.
MaxAtoms == 3
MaxPatterns == 2
MaxMatches == 2

Atoms == 0..(MaxAtoms - 1)

\* A match of a bond pattern: the two tagged atoms in the order of the tags.
BondMatches == {m \in Atoms \X Atoms : m[1] # m[2]}

\* A molecule's substructure matches: entries (pattern, atoms) in the order
\* the matcher reports them.
MatchTables(patterns) == SeqsUpTo([patt : patterns, m : BondMatches], MaxMatches)

\* np.array(list_of_rows, dtype=np.int32) of rows of `width` entries: an empty
\* list gives an array of shape (0,), k rows give shape (k, width); width 0
\* stands for a list of scalars (shape (k,)).
np_array(rows, width) ==
    [shape |-> IF rows = <<>> \/ width = 0 THEN <<Len(rows)>> ELSE <<Len(rows), width>>,
     rows |-> rows]

\* utils.canonicalize_bond(arr): the tuple reversed when its first entry is
\* greater than its last.
canonicalize_bond(arr) ==
    IF arr[1] > arr[Len(arr)] THEN [i \in 1..Len(arr) |-> arr[Len(arr) + 1 - i]] ELSE arr

\* utils.match_smirks(mol, patt): the matches of pattern patt in mol.
match_smirks(mol, patt) ==
    LET hits == SelectSeq(mol.table, LAMBDA e : e.patt = patt)
    IN [i \in 1..Len(hits) |-> hits[i].m]

\* bonded.py 26: "vd[sorted_m] = p_idx" on a dict kept as its items in
\* insertion order: an existing key keeps its place and takes the new value,
\* a new key is appended.
dict_setitem_keep_first(vd, key, value) ==
    IF \E i \in 1..Len(vd) : vd[i].key = key THEN vd
    ELSE Append(vd, [key |-> key, value |-> value])
dict_setitem(vd, key, value) ==
    IF \E i \in 1..Len(vd) : vd[i].key = key
    THEN [i \in 1..Len(vd) |-> IF vd[i].key = key THEN [key |-> key, value |-> value]
                               ELSE vd[i]]
    ELSE Append(vd, [key |-> key, value |-> value])

\* bonded.py 24-26: the inner loop over the matches of one pattern.
RECURSIVE vd_of_matches(_, _, _)
vd_of_matches(vd, matches, p_idx) ==
    IF matches = <<>> THEN vd
    ELSE vd_of_matches(dict_setitem(vd, canonicalize_bond(Head(matches)), p_idx),
                       Tail(matches), p_idx)

\* bonded.py 22-26: the outer loop, "for p_idx, patt in enumerate(smirks)";
\* p_idx counts from 0.
RECURSIVE vd_of_patterns(_, _, _, _)
vd_of_patterns(vd, mol, smirks, p_idx) ==
    IF p_idx >= Len(smirks) THEN vd
    ELSE vd_of_patterns(vd_of_matches(vd, match_smirks(mol, smirks[p_idx + 1]), p_idx),
                        mol, smirks, p_idx + 1)

\* bonded.py 13-31: generate_vd_idxs(mol, smirks) returns the keys and the
\* values of the dict as two arrays.
generate_vd_idxs(mol, smirks) ==
    LET vd == vd_of_patterns(<<>>, mol, smirks, 0)
    IN [bond_idxs |-> np_array([i \in 1..Len(vd) |-> vd[i].key], 2),
        param_idxs |-> np_array([i \in 1..Len(vd) |-> vd[i].value], 0)]

\* The call of generate_vd_idxs(mol, smirks).
GenerateVdIdxsCall ==
    /\ prog = "generate_vd_idxs"
    /\ frame.pc = "call"
    /\ out' = Some(generate_vd_idxs(frame.mol, frame.smirks))
    /\ frame' = [frame EXCEPT !.pc = "done"]
    /\ UNCHANGED <<coreVars, prog>>

\* Pattern lists <<1, ..., n>> and molecules with any match table over the
\* patterns 1..MaxPatterns.
InitGenerateVdIdxs ==
    /\ prog = "generate_vd_idxs"
    /\ out = None
    /\ \E n \in 0..MaxPatterns, table \in MatchTables(1..MaxPatterns) :
          frame = [pc |-> "call", smirks |-> [i \in 1..n |-> i],
                   mol |-> [table |-> table]]

\* ------------------- bonded.py HarmonicBondHandler.static_parameterize
\* params[param_idxs]: one row of params per entry of param_idxs; the result
\* has shape (len(param_idxs), 2) also when param_idxs is empty.
params_at(params, param_idxs) ==
    [shape |-> <<Len(param_idxs.rows), 2>>,
     rows |-> [i \in 1..Len(param_idxs.rows) |-> params[param_idxs.rows[i] + 1]]]

\* bonded.py 160-161: ReversibleBondHandler.static_parameterize.
reversible_static_parameterize(params, smirks, mol) ==
    LET r == generate_vd_idxs(mol, smirks)
    IN [mol_params |-> params_at(params, r.param_idxs), bond_idxs |-> r.bond_idxs]

\* openmm_deserializer.idxs_params_from_hb(hbfs): the atom pairs and the
\* parameters of the bonds of the HarmonicBondForces, as two arrays.
idxs_params_from_hb(hbfs) ==
    [bond_idxs |-> np_array([i \in 1..Len(hbfs) |-> hbfs[i].idxs], 2),
     mol_params |-> np_array([i \in 1..Len(hbfs) |-> hbfs[i].param], 2)]

\* tuple(sorted([i, j]))
sorted_pair(i, j) == IF i <= j THEN <<i, j>> ELSE <<j, i>>

\* bonded.py 175-177: the bonds of the molecule as sorted pairs.
rd_bonds(mol) == {sorted_pair(b[1], b[2]) : b \in mol.bonds}

\* bonded.py 179-181: the parameterized pairs as sorted pairs.
ff_bonds(bond_idxs) ==
    {sorted_pair(bond_idxs.rows[i][1], bond_idxs.rows[i][2]) :
        i \in 1..Len(bond_idxs.rows)}

\* bonded.py 183: "if rd_bonds != ff_bonds".
bond_table_changed_missing_only(rd, ff) == ~(rd \subseteq ff)
bond_table_changed(rd, ff) == rd # ff

\* bonded.py 165-194: static_parameterize(params, smirks, mol).
static_parameterize(params, smirks, mol) ==
    LET p == IF mol.openmm_system # None
             THEN idxs_params_from_hb(Val(mol.openmm_system))
             ELSE reversible_static_parameterize(params, smirks, mol)
    IN IF bond_table_changed(rd_bonds(mol), ff_bonds(p.bond_idxs))
       THEN [exc |-> "ValueError", ret |-> None]
       ELSE IF Len(p.mol_params.rows) = 0
       THEN [exc |-> "none",
             ret |-> Some([mol_params |-> [shape |-> <<0, 2>>, rows |-> <<>>],
                           bond_idxs |-> [shape |-> <<0, 2>>, rows |-> <<>>]])]
       ELSE [exc |-> "none",
             ret |-> Some([mol_params |-> p.mol_params, bond_idxs |-> p.bond_idxs])]

\* The call of HarmonicBondHandler.static_parameterize(params, smirks, mol).
StaticParameterizeCall ==
    /\ prog = "static_parameterize"
    /\ frame.pc = "call"
    /\ out' = Some(static_parameterize(frame.params, frame.smirks, frame.mol))
    /\ frame' = [frame EXCEPT !.pc = "done"]
    /\ UNCHANGED <<coreVars, prog>>

\* Molecules with any set of bonds, parameterized either from the matches of
\* one bond pattern or from the bonds of an attached openmm system.
InitStaticParameterize ==
    /\ prog = "static_parameterize"
    /\ out = None
    /\ \E bonds \in SUBSET {m \in BondMatches : m[1] < m[2]},
          table \in MatchTables({1}), omm \in BOOLEAN :
          frame = [pc |-> "call", params |-> <<[k |-> 1]>>, smirks |-> <<1>>,
                   mol |-> [bonds |-> bonds,
                            table |-> IF omm THEN <<>> ELSE table,
                            openmm_system |->
                                IF omm
                                THEN Some([i \in 1..Len(table) |->
                                              [idxs |-> table[i].m, param |-> [k |-> i]]])
                                ELSE None]]

\* ------------------------------------------- rbfe.py setup_initial_states
MaxSeed == 2

\* Lambda values of a schedule.
Lambdas == {"0.0", "0.5", "1.0"}

\* LangevinIntegrator(temperature, dt, friction, masses, seed) and
\* MonteCarloBarostat(N, pressure, temperature, group_idxs, interval, seed):
\* the seed is the only argument that differs between windows.
LangevinIntegrator(seed) == [seed |-> seed]
MonteCarloBarostat(seed) == [seed |-> seed]

\* rbfe.py 188: "run_seed = seed + lamb_idx".
run_seed_constant(seed, window_idx) == seed
run_seed(seed, window_idx) == seed + window_idx

\* rbfe.py 176-195: the body of the loop for lamb_idx = window_idx (from 0).
window_state(window_idx, lamb, seed) ==
    [lamb |-> lamb,
     integrator |-> LangevinIntegrator(run_seed(seed, window_idx)),
     barostat |-> MonteCarloBarostat(run_seed(seed, window_idx) + 1)]

\* rbfe.py 163-197: setup_initial_states(st, host_config, temperature,
\* lambda_schedule, seed); one append per entry of enumerate(lambda_schedule).
setup_initial_states(lambda_schedule, seed) ==
    [k \in 1..Len(lambda_schedule) |-> window_state(k - 1, lambda_schedule[k], seed)]

\* The call of setup_initial_states from estimate_relative_free_energy
\* (rbfe.py 433).
SetupInitialStatesCall ==
    /\ prog = "setup_initial_states"
    /\ frame.pc = "call"
    /\ out' = Some(setup_initial_states(frame.lambda_schedule, frame.seed))
    /\ frame' = [frame EXCEPT !.pc = "done"]
    /\ UNCHANGED <<coreVars, prog>>

InitSetupInitialStates ==
    /\ prog = "setup_initial_states"
    /\ out = None
    /\ \E seed \in 0..MaxSeed, lambda_schedule \in SeqsUpTo(Lambdas, MaxL) :
          frame = [pc |-> "call", seed |-> seed, lambda_schedule |-> lambda_schedule]

\* ------------------------------------------------- end of helper functions
InitUtil ==
    /\ CoreIdle
    /\ \/ InitGetBatchUFns
       \/ InitImageFrames
       \/ InitImageXvb
       \/ InitDriver
       \/ InitGenerateVdIdxs
       \/ InitStaticParameterize
       \/ InitSetupInitialStates

NextUtil ==
    \/ GetBatchUFnsLoop
    \/ GetBatchUFnsReturn
    \/ GetBatchUFnsCall
    \/ ImageFramesCall
    \/ ImageXvbCall
    \/ DriverEquilibrate
    \/ DriverLoop
    \/ DriverMc
    \/ DriverReport
    \/ DriverMd
    \/ DriverClose
    \/ GenerateVdIdxsCall
    \/ StaticParameterizeCall
    \/ SetupInitialStatesCall

SpecUtil == InitUtil /\ [][NextUtil]_vars

\* ================================================================ claims
RECURSIVE SumSeq(_)
SumSeq(s) == IF s = <<>> THEN 0 ELSE s[1] + SumSeq(Tail(s))

InEstimate(which) == mode = "estimate" /\ impl = which

\* Indices (1-based) of the window entries that hold an EnergyDecomposedState.
LiveStates == {k \in 1..Len(tmp_states) : tmp_states[k] # None}

\* C1: at every point of run_sequential_sims_given_initial_states at most two
\* entries of tmp_states hold an EnergyDecomposedState, whatever the ladder
\* length, and when the state of index i is about to be constructed the entry
\* of index i - 2 has already been released.
C1_WindowAtMostTwo ==
    InEstimate("free_energy") =>
        /\ Cardinality(LiveStates) <= 2
        /\ (r_pc \in {"U_fns", "construct"} /\ lamb_idx >= 2)
               => tmp_states[lamb_idx - 2 + 1] = None

C1_Witness ==
    /\ InEstimate("free_energy")
    /\ L >= 4
    /\ keep_idxs = Some({0, L - 1})
    /\ r_pc = "pair"
    /\ lamb_idx = L - 1
    /\ LiveStates = {L - 1, L}

\* Identities of the trajectories the running estimate still references: the
\* one bound to cur_frames, the one bound to prev_frames and those held by the
\* window's states.
ReferencedTrajs ==
    {Val(tmp_states[k]).frames.id : k \in LiveStates}
        \cup {o[1].id : o \in {cur_frames, prev_frames} \ {None}}

\* C2: with keep_idxs empty, the estimate never references more than two
\* distinct per-state trajectories (the one sample just returned together with
\* those held by the window), for every ladder length.
C2_AtMostTwoTrajectories ==
    (mode = "estimate" /\ keep_idxs \in {None, Some({})})
        => Cardinality(ReferencedTrajs) <= 2

\* C3: for n_frames >= 1 and steps_per_frame >= 1, with max_buffer_frames
\* omitted or any positive value, a sample call that returns yields a
\* trajectory and a box sequence of exactly n_frames entries each.
C3_FrameCount ==
    (/\ s_pc = "returned"
     /\ md_params.n_frames >= 1
     /\ md_params.steps_per_frame >= 1
     /\ (max_buffer_frames = None \/ Val(max_buffer_frames) > 0))
        => /\ Len(Val(s_ret).coords) = md_params.n_frames
           /\ Len(Val(s_ret).boxes) = md_params.n_frames

C3_Witness ==
    /\ mode = "sample" /\ impl = "free_energy"
    /\ s_pc = "returned"
    /\ md_params.n_frames = 3
    /\ md_params.steps_per_frame = 2
    /\ max_buffer_frames = Some(2)
    /\ prod_calls = <<2, 1>>
    /\ Len(Val(s_ret).coords) = 3

\* The split the claim states: q copies of batch_size, then r when r > 0.
QuotRemSplit(n, batch_size) ==
    LET q == n \div batch_size
        r == n % batch_size
    IN [k \in 1..(q + (IF r > 0 THEN 1 ELSE 0)) |-> IF k <= q THEN batch_size ELSE r]

\* C4: for n >= 0 and batch_size >= 1 the exhausted generator has yielded a
\* sequence that sums to n, whose elements all equal batch_size except
\* possibly the last, whose last element lies in 1..batch_size, that is empty
\* for n = 0, and that is q copies of batch_size followed by r when r > 0.
C4_BatchesSplit ==
    (/\ mode = "batches"
     /\ gen.n >= 0
     /\ gen.batch_size >= 1
     /\ gen_out = "StopIteration")
        => /\ SumSeq(yielded) = gen.n
           /\ \A k \in 1..(Len(yielded) - 1) : yielded[k] = gen.batch_size
           /\ (yielded # <<>> => yielded[Len(yielded)] \in 1..gen.batch_size)
           /\ (gen.n = 0 => yielded = <<>>)
           /\ yielded = QuotRemSplit(gen.n, gen.batch_size)

C4_Witness ==
    /\ mode = "batches"
    /\ gen.n = 3
    /\ gen.batch_size = 2
    /\ gen_out = "StopIteration"
    /\ yielded = <<2, 1>>

\* C5: a generator made with batch_size <= 0 (or n < 0) never yields a batch
\* size to its consumer: its first next() fails with AssertionError, so no
\* production call is ever made for it.
C5_BatchesRejects ==
    (gen.pc # "none" /\ (gen.batch_size <= 0 \/ gen.n < 0))
        => /\ yielded = <<>>
           /\ prod_calls = <<>>
           /\ gen_out \in {"none", "AssertionError"}
           /\ (gen_out = "AssertionError" <=> gen.pc = "raised")
           /\ gen.pc \in {"start", "raised"}

C5_Witness ==
    /\ mode = "batches"
    /\ gen.n = 3
    /\ gen.batch_size = 0
    /\ gen.pc = "raised"
    /\ gen_out = "AssertionError"
    /\ yielded = <<>>

\* C6: whenever max_buffer_frames is supplied (is not None), every production
\* engine call records at most max_buffer_frames frames and the frames go to
\* the StoredArrays container.
C6_BatchedWheneverSupplied ==
    (/\ impl = "free_energy"
     /\ s_pc # "idle"
     /\ md_params.n_frames >= 1
     /\ md_params.steps_per_frame >= 1
     /\ max_buffer_frames # None)
        => /\ \A k \in 1..Len(prod_calls) : prod_calls[k] <= Val(max_buffer_frames)
           /\ (prod_calls # <<>> => coords_type = "StoredArrays")

\* C7: in free_energy.sample, when the coordinates are non-finite after the
\* n_eq_steps burn-in steps, the call ends in AssertionError with no
\* production step run, no further engine step and no trajectory returned.
C7_BurnInDivergenceFatal ==
    (/\ impl = "free_energy"
     /\ s_pc \notin {"idle", "start", "burn_in", "eq_check"}
     /\ ~IsFiniteAt(initial_state.diverge, md_params.n_eq_steps))
        => /\ s_pc = "raised"
           /\ s_exc = "AssertionError"
           /\ prod_calls = <<>>
           /\ ctxt.step = md_params.n_eq_steps
           /\ s_ret = None

C7_Witness ==
    /\ mode = "sample" /\ impl = "free_energy"
    /\ initial_state.diverge = 1
    /\ md_params.n_eq_steps = 1
    /\ md_params.n_frames >= 1
    /\ s_pc = "raised"
    /\ s_exc = "AssertionError"
    /\ prod_calls = <<>>

\* C8: no trajectory returned by sample (either module's) contains a
\* non-finite frame.
C8_NoNonFiniteReturned ==
    s_pc = "returned"
        => \A k \in 1..Len(Val(s_ret).coords) : Val(s_ret).coords[k].finite

\* C9: the estimate samples the ladder in index order 0..L-1, one state at a
\* time: the log of sample calls is begin 0, end 0, begin 1, end 1, ..., a
\* running sample is the one of lamb_idx, and a completed estimate has sampled
\* every state exactly once.
C9_SequentialOrder ==
    mode = "estimate" =>
        /\ \A k \in 1..Len(sample_log) :
               sample_log[k] = <<IF k % 2 = 1 THEN "begin" ELSE "end", (k - 1) \div 2>>
        /\ (s_pc # "idle" => /\ sample_log # <<>>
                             /\ sample_log[Len(sample_log)] = <<"begin", lamb_idx>>)
        /\ (r_pc = "done" => Len(sample_log) = 2 * L)

C9_Witness ==
    /\ mode = "estimate"
    /\ r_pc = "done"
    /\ L >= 3
    /\ Len(sample_log) = 2 * L

\* C10: a completed estimate over L >= 2 states has processed all L - 1
\* adjacent pairs: the runner's output list has L - 1 entries, entry k built
\* from states k and k + 1 in that order, and all_dGs and all_errs have L - 1
\* entries, entry k estimated from entry k of the output list.
C10_AllPairs ==
    (mode = "estimate" /\ r_pc = "done" /\ L >= 2) =>
        LET pair(k) == [fn |-> <<k, k + 1>>, traj |-> <<k, k + 1>>]
            est(e, k) == e.from = k /\ e.to = k + 1 /\ e.u = pair(k)
        IN /\ impl = "free_energy" =>
                  /\ Len(u_kln_by_component_by_lambda) = L - 1
                  /\ \A k \in 0..(L - 2) : u_kln_by_component_by_lambda[k + 1] = pair(k)
           /\ Len(Val(result).all_dGs) = L - 1
           /\ Len(Val(result).all_errs) = L - 1
           /\ \A k \in 0..(L - 2) : /\ est(Val(result).all_dGs[k + 1], k)
                                    /\ est(Val(result).all_errs[k + 1], k)

C10_Witness ==
    /\ InEstimate("free_energy")
    /\ r_pc = "done"
    /\ L >= 3
    /\ Len(Val(result).all_dGs) = L - 1
    /\ Len(u_kln_by_component_by_lambda) = L - 1

\* The ladder indices named by keep_idxs, in ladder order.
RECURSIVE KeptInOrder(_, _)
KeptInOrder(kept, from) ==
    IF from >= L THEN <<>>
    ELSE (IF from \in kept THEN <<from>> ELSE <<>>) \o KeptInOrder(kept, from + 1)

KeptSet == IF keep_idxs = None THEN {} ELSE Val(keep_idxs)

\* C11: after a completed estimate, stored_frames and stored_boxes hold exactly
\* one entry per index of keep_idxs that is a ladder index, in ladder order,
\* each the trajectory / box sequence that sample returned at that index
\* (n_frames entries), and nothing for any other index.
C11_RetainsExactlyKept ==
    (mode = "estimate" /\ r_pc = "done") =>
        LET want == KeptInOrder(KeptSet, 0)
            res == Val(result)
        IN /\ Len(res.frames) = Len(want)
           /\ Len(res.boxes) = Len(want)
           /\ \A k \in 1..Len(want) :
                  /\ res.frames[k].id = want[k]
                  /\ res.boxes[k].id = want[k]
                  /\ Len(res.frames[k].frames) = md_params.n_frames
                  /\ Len(res.boxes[k].frames) = md_params.n_frames
                  /\ \A f \in 1..Len(res.frames[k].frames) :
                         "finite" \in DOMAIN res.frames[k].frames[f]

C11_Witness ==
    /\ mode = "estimate"
    /\ r_pc = "done"
    /\ L = 4
    /\ KeptSet = {1, 3}
    /\ Len(Val(result).frames) = 2
    /\ Val(result).frames[1].id = 1
    /\ Val(result).frames[2].id = 3

\* C12: a retained entry shares no storage with the trajectory held by the
\* EnergyDecomposedState of its index (it is a copy, a different object).
C12_RetainedIsCopy ==
    InEstimate("free_energy") =>
        \A k \in 1..Len(stored_frames) : \A j \in LiveStates :
            /\ Val(tmp_states[j]).frames.id # stored_frames[k].id
            /\ Val(tmp_states[j]).boxes.id # stored_boxes[k].id

\* C12 as amended: a retained entry is the very object sample returned, the
\* one the EnergyDecomposedState of its index holds while that state is in the
\* window; no statement of the runner changes a retained entry afterwards, in
\* particular not the release of the window's state.
C12_RetainedIsSameObject ==
    /\ [](InEstimate("free_energy") =>
            \A k \in 1..Len(stored_frames) :
                LET j == stored_frames[k].id + 1
                IN (j \in LiveStates) =>
                       /\ Val(tmp_states[j]).frames = stored_frames[k]
                       /\ Val(tmp_states[j]).boxes = stored_boxes[k])
    /\ [][InEstimate("free_energy") =>
            \A k \in 1..Len(stored_frames) :
                /\ Len(stored_frames') >= k
                /\ Len(stored_boxes') >= k
                /\ stored_frames'[k] = stored_frames[k]
                /\ stored_boxes'[k] = stored_boxes[k]]_vars

C12_Witness ==
    /\ InEstimate("free_energy")
    /\ r_pc = "pair"
    /\ lamb_idx = 2
    /\ Len(stored_frames) = 2
    /\ stored_frames[1].id = 0
    /\ tmp_states[1] = None
    /\ stored_frames[2] = Val(tmp_states[3]).frames

\* The identities (lambda indices) of a sequence of trajectory objects.
IdsOf(objs) == [k \in 1..Len(objs) |-> objs[k].id]

\* C13: when estimate_relative_free_energy is called with keep_idxs = None on
\* a ladder of L >= 2 states, the SimulationResult it returns holds the
\* frames and the boxes of exactly the first (index 0) and the last
\* (index L - 1) lambda window.  The code keeps [0, -1] and tests
\* "lamb_idx in keep_idxs", which -1 never satisfies: only window 0 is kept.
C13_DefaultKeepsBothEnds ==
    (rel.pc = "returned" /\ rel.keep_idxs = None /\ L >= 2)
        => /\ IdsOf(Val(rel.ret).frames) = <<0, L - 1>>
           /\ IdsOf(Val(rel.ret).boxes) = <<0, L - 1>>

\* The keep_idxs argument of the call in progress, None or Some(set).
RunnerCalled == InEstimate("free_energy") /\ r_pc # "init"

\* C14: run_sequential_sims_given_initial_states rejects a keep_idxs holding
\* a negative index with an AssertionError before any state is sampled; an
\* empty or None keep_idxs is accepted (no AssertionError before the first
\* sample) and retains nothing.
C14_NegativeKeepRejected ==
    RunnerCalled =>
        /\ (\E k \in KeptSet : k < 0)
              => (r_pc = "raised" /\ r_exc = "AssertionError" /\ sample_log = <<>>
                  /\ result = None)
        /\ KeptSet = {}
              => /\ ~(r_exc = "AssertionError" /\ sample_log = <<>>)
                 /\ stored_frames = <<>> /\ stored_boxes = <<>>
                 /\ result # None => (Val(result).frames = <<>> /\ Val(result).boxes = <<>>)

\* A call with a negative index has been rejected, and (elsewhere) a call with
\* nothing to keep has sampled its whole ladder.
C14_Witness ==
    /\ RunnerCalled
    /\ (0 - 1) \in KeptSet
    /\ L >= 2
    /\ r_pc = "raised"
    /\ r_exc = "AssertionError"

C14_WitnessEmpty ==
    /\ RunnerCalled
    /\ KeptSet = {}
    /\ L >= 2
    /\ r_pc = "done"
    /\ stored_frames = <<>>

\* The work arrays the claim describes for the pair (A, B): frames sampled
\* under A evaluated at B minus at A, and frames sampled under B evaluated
\* at A minus at B, each summed over the energy terms.
\* The number of potentials of ladder state k (0-based), and whether the pair
\* ending at state k has term lists that correspond position by position.
NumPotentials(k) == initial_states[k + 1].n_terms
SameTerms(k) == NumPotentials(k - 1) = NumPotentials(k)

ForwardWork(A, B) ==
    {[sign |-> 1, e |-> [c |-> c, fn |-> B, traj |-> A]] : c \in 1..NumPotentials(A)}
        \cup {[sign |-> 0 - 1, e |-> [c |-> c, fn |-> A, traj |-> A]] :
                 c \in 1..NumPotentials(A)}
ReverseWork(A, B) ==
    {[sign |-> 1, e |-> [c |-> c, fn |-> A, traj |-> B]] : c \in 1..NumPotentials(A)}
        \cup {[sign |-> 0 - 1, e |-> [c |-> c, fn |-> B, traj |-> B]] :
                 c \in 1..NumPotentials(A)}

\* C15: in both implementations, the estimate of every adjacent pair
\* (A = state i - 1, B = state i, with as many terms each) is made from the forward work "frames
\* sampled under A: energy at B minus energy at A" and the reverse work
\* "frames sampled under B: energy at A minus energy at B"; in free_energy.py
\* these are u[1,0] - u[0,0] and u[0,1] - u[1,1] of the pair's tensor.
C15_WorkConvention ==
    mode = "estimate" =>
        \A k \in 1..Len(all_dGs) :
            SameTerms(k) =>
                \A b \in 1..Len(all_dGs[k].df) :
                    /\ all_dGs[k].df[b].w_fwd = ForwardWork(k - 1, k)
                    /\ all_dGs[k].df[b].w_rev = ReverseWork(k - 1, k)

\* Each implementation has estimated the last pair of a ladder of three.
C15_Witness ==
    /\ InEstimate("free_energy")
    /\ L = 3
    /\ Len(all_dGs) = 2
    /\ all_dGs[2].df[1].w_fwd = ForwardWork(1, 2)

C15_WitnessRbfe ==
    /\ InEstimate("rbfe")
    /\ L = 3
    /\ Len(all_dGs) = 2
    /\ all_dGs[2].df[1].w_rev = ReverseWork(1, 2)

\* C16: the free-energy difference reported for each adjacent pair is one BAR
\* estimate, made on the works summed over all energy terms (of two states
\* with as many terms each), divided by beta;
\* it is never a sum of BAR estimates of the single terms.
C16_TotalFromSummedWorks ==
    mode = "estimate" =>
        \A k \in 1..Len(all_dGs) :
            /\ Len(all_dGs[k].df) = 1
            /\ SameTerms(k) =>
                  /\ \A c \in 1..NumPotentials(k) :
                         \E t \in all_dGs[k].df[1].w_fwd : t.e.c = c
                  /\ \A c \in 1..NumPotentials(k) :
                         \E t \in all_dGs[k].df[1].w_rev : t.e.c = c
            /\ all_dGs[k].scale = "df/beta"
            /\ result # None => Val(result).all_dGs = all_dGs

C16_Witness ==
    /\ InEstimate("rbfe")
    /\ r_pc = "done"
    /\ L = 3
    /\ Len(Val(result).all_dGs) = 2
    /\ Len(Val(result).all_dGs[2].df) = 1
    /\ Cardinality(Val(result).all_dGs[2].df[1].w_fwd) = 2 * NumTerms

\* C17: estimate_free_energy_given_initial_states called with fewer than two
\* states never returns a SimulationResult (so none with an empty or partial
\* list of dGs): once the call has run to its end it has failed with an error.
C17_IncompleteLadderFatal ==
    (mode = "estimate" /\ L < 2) =>
        /\ result = None
        /\ r_pc # "done"
        /\ r_pc = "raised" => r_exc # "none"
        /\ rel.pc # "returned"

\* The aggregation of a one-state ladder has failed after its single state was
\* sampled to the end.
C17_Witness ==
    /\ InEstimate("free_energy")
    /\ L = 1
    /\ Len(sample_log) = 2
    /\ r_pc = "raised"
    /\ r_exc = "AxisError"

C17_WitnessRbfe ==
    /\ InEstimate("rbfe")
    /\ L = 1
    /\ r_pc = "raised"
    /\ r_exc = "ValueError"

\* C18: an error raised by the estimate that estimate_relative_free_energy
\* runs reaches the caller as a SimulationException whose initial_states is
\* the full ladder built for the lambda schedule, whose protocol is the
\* protocol used, and whose cause is the original error; the call never
\* returns a result after such an error.
C18_WrappedInSimulationException ==
    (rel.pc # "idle" /\ r_exc # "none") =>
        /\ rel.pc # "returned"
        /\ rel.ret = None
        /\ rel.pc = "raised" =>
              /\ rel.exc.type = "SimulationException"
              /\ rel.exc.initial_states = initial_states
              /\ rel.exc.protocol = md_params
              /\ rel.exc.protocol.n_frames = rel.n_frames
              /\ rel.exc.cause = r_exc

\* A ladder of two states was sampled in full, its pair analysis failed, and
\* the failure has left estimate_relative_free_energy.
C18_Witness ==
    /\ rel.pc = "raised"
    /\ L = 2
    /\ Len(sample_log) = 4
    /\ r_exc = "TypeError"
    /\ rel.exc.type = "SimulationException"
    /\ Len(rel.exc.initial_states) = 2

\* C19: within one estimate a failure is never swallowed or continued past:
\* once sampling or pair analysis has failed at lambda index i the estimate
\* is over with that failure (the caller gets the exception of the failing
\* step), no SimulationResult exists, and nothing is sampled afterwards (the
\* sample of index i is the last entry of the order of sample calls, and
\* every earlier sample ended before the next began).
C19_NoFailureSwallowed ==
    /\ [](mode = "estimate" =>
            /\ (s_exc # "none" /\ r_pc # "sampling")
                  => (r_pc = "raised" /\ r_exc = s_exc)
            /\ r_exc # "none"
                  => (r_pc = "raised" /\ result = None /\ rel.ret = None)
            /\ (r_pc = "raised" /\ s_exc # "none")
                  => sample_log[Len(sample_log)] = <<"begin", lamb_idx>>
            /\ \A k \in 1..(Len(sample_log) - 1) :
                  sample_log[k][1] = "begin"
                      => sample_log[k + 1] = <<"end", sample_log[k][2]>>)
    /\ [][(mode = "estimate" /\ r_pc = "raised")
            => (r_pc' = "raised" /\ r_exc' = r_exc /\ sample_log' = sample_log
                /\ result' = None /\ lamb_idx' = lamb_idx)]_vars

\* Sampling failed at index 1 of a ladder of three: the third state was never
\* sampled.
C19_Witness ==
    /\ InEstimate("free_energy")
    /\ L = 3
    /\ r_pc = "raised"
    /\ s_exc # "none"
    /\ r_exc = s_exc
    /\ lamb_idx = 1
    /\ sample_log = <<<<"begin", 0>>, <<"end", 0>>, <<"begin", 1>>>>

\* Pair analysis failed (rbfe.py, ladder of two states).
C19_WitnessPair ==
    /\ InEstimate("rbfe")
    /\ r_pc = "raised"
    /\ r_exc = "TypeError"
    /\ lamb_idx = 1
    /\ result = None

C21_NoTermSkipped ==
    mode = "estimate" =>
        \A k \in 1..Len(all_dGs) :
            \A b \in 1..Len(all_dGs[k].df) :
                /\ SameTerms(k)
                /\ \A c \in 1..NumPotentials(k - 1) :
                       \E t \in all_dGs[k].df[b].w_fwd : t.e.c = c /\ t.e.fn = k - 1
                /\ \A c \in 1..NumPotentials(k) :
                       \E t \in all_dGs[k].df[b].w_fwd : t.e.c = c /\ t.e.fn = k

\* The estimate of a ladder whose middle state has one potential fewer than
\* its neighbours has returned a result.
C21_SubsetTotalReturned ==
    /\ InEstimate("rbfe")
    /\ L = 3
    /\ NumPotentials(0) = 2 /\ NumPotentials(1) = 1 /\ NumPotentials(2) = 2
    /\ r_pc = "done"
    /\ Len(Val(result).all_dGs) = 2

\* C22: whenever the runner is about to compute the decomposed energies of
\* the pair (i - 1, i), the window entries tmp_states[i - 1] and tmp_states[i]
\* are live EnergyDecomposedStates made of the frames, boxes and evaluators
\* of exactly the indices i - 1 and i; the pair analysis never gets an
\* evicted entry (no AttributeError) or the state of another index.
C22_PairEntriesLive ==
    InEstimate("free_energy") =>
        /\ (r_pc = "pair" /\ lamb_idx > 0) =>
              \A d \in {0, 1} :
                  LET entry == tmp_states[lamb_idx - d + 1]
                  IN /\ entry # None
                     /\ Val(entry).frames.id = lamb_idx - d
                     /\ Val(entry).boxes.id = lamb_idx - d
                     /\ Val(entry).batch_u_fns = lamb_idx - d
        /\ r_exc # "AttributeError"

\* The last pair of a ladder of four is about to be analysed, two entries of
\* the window already evicted.
C22_Witness ==
    /\ InEstimate("free_energy")
    /\ L = 4
    /\ r_pc = "pair"
    /\ lamb_idx = 3
    /\ tmp_states[1] = None /\ tmp_states[2] = None
    /\ tmp_states[3] # None /\ tmp_states[4] # None

\* C23: for the same InitialState and protocol, free_energy.sample with a
\* positive max_buffer_frames ends as sample without max_buffer_frames does:
\* the same frames and the same boxes in the same order (recorded at the same
\* step numbers, n_frames * steps_per_frame production steps in all), or the
\* same failure.
C23_BatchedEqualsUnbatched ==
    (mode = "sample" /\ first_ret # None /\ s_pc \in {"returned", "raised"}
     /\ Val(first_ret).buffer # None /\ max_buffer_frames = None)
        => /\ s_ret = Val(first_ret).ret
           /\ s_exc = Val(first_ret).exc
           /\ s_pc = "returned" =>
                  ctxt.step = md_params.n_eq_steps
                                + md_params.n_frames * md_params.steps_per_frame

\* Three frames were produced in batches of two and one, then in one call.
C23_Witness ==
    /\ mode = "sample"
    /\ first_ret # None
    /\ Val(first_ret).buffer = Some(2)
    /\ max_buffer_frames = None
    /\ s_pc = "returned"
    /\ md_params.n_frames = 3
    /\ md_params.steps_per_frame = 2
    /\ Len(Val(s_ret).coords) = 3
    /\ s_ret = Val(first_ret).ret

\* C24: get_batch_U_fns(bps, lamb) returns one evaluator per bound potential,
\* in the order of bps, and evaluator k evaluates potential bps[k] (not the
\* last potential of the loop) at lamb on every (frame, box) pair, giving one
\* energy per pair in frame order: one per frame when there are as many boxes
\* as frames.
C24_OneEvaluatorPerPotential ==
    (prog = "get_batch_U_fns" /\ frame.pc = "called") =>
        /\ Len(Val(out)) = Len(frame.bps)
        /\ Len(frame.Us) = Len(frame.bps)
        /\ \A k \in 1..Len(frame.bps) :
              /\ Len(frame.Us[k]) = zip_len(Len(frame.xs), Len(frame.boxes))
              /\ Len(frame.xs) = Len(frame.boxes) => Len(frame.Us[k]) = Len(frame.xs)
              /\ \A j \in 1..Len(frame.Us[k]) :
                    frame.Us[k][j] = [bp |-> frame.bps[k], x |-> frame.xs[j],
                                      box |-> frame.boxes[j], lamb |-> frame.lamb]

\* Evaluators of two different potentials were applied to two frames.
C24_Witness ==
    /\ prog = "get_batch_U_fns"
    /\ frame.pc = "called"
    /\ frame.bps = <<2, 1>>
    /\ Len(frame.xs) = 2 /\ Len(frame.boxes) = 2
    /\ frame.Us[1][2].bp = 2

\* C25: image_frames raises and returns nothing when the number of frames
\* differs from the number of boxes, when a box is not 3x3, or when the
\* potentials hold no harmonic-bond term; when it returns, it returns exactly
\* one imaged frame per input frame, in input order, and the input frames are
\* as they were.
C25_ImageFramesContract ==
    (prog = "image_frames" /\ frame.pc = "done") =>
        LET r == Val(out)
            mustFail == \/ Len(frame.given) # Len(frame.boxes)
                        \/ \E k \in 1..Len(frame.boxes) : frame.boxes[k] # "3x3"
                        \/ \A k \in 1..Len(frame.potentials) :
                              frame.potentials[k] # "HarmonicBond"
        IN /\ mustFail => (r.exc # "none" /\ r.ret = None)
           /\ r.exc # "none" => r.ret = None
           /\ r.exc = "none" =>
                 /\ Len(Val(r.ret)) = Len(frame.given)
                 /\ \A i \in 1..Len(frame.given) :
                       /\ Val(r.ret)[i].id = frame.given[i].id
                       /\ Val(r.ret)[i].state = "imaged"
                       /\ Val(r.ret)[i].box = i
           /\ frame.frames = frame.given

\* Two frames were imaged into their two boxes.
C25_Witness ==
    /\ prog = "image_frames"
    /\ frame.pc = "done"
    /\ Len(frame.given) = 2
    /\ Val(out).exc = "none"
    /\ Len(Val(Val(out).ret)) = 2

\* A call with one box too few has failed.
C25_WitnessFails ==
    /\ prog = "image_frames"
    /\ frame.pc = "done"
    /\ Len(frame.given) = 2 /\ frame.boxes = <<"3x3">>
    /\ Val(out).exc = "AssertionError"

\* C26: image_xvb changes only the coordinates: the state it returns has the
\* velocities and the box of the input state (and the imaged coordinates of
\* the input's), and the input state is as it was.
C26_OnlyCoordsChange ==
    (prog = "image_xvb" /\ frame.pc = "done") =>
        /\ frame.xvb_t = frame.given
        /\ Val(out).exc = "none" =>
              LET ret == Val(Val(out).ret)
              IN /\ ret.velocities = frame.given.velocities
                 /\ ret.box = frame.given.box
                 /\ ret.coords.id = frame.given.coords.id
                 /\ ret.coords.state = "imaged"

C26_Witness ==
    /\ prog = "image_xvb"
    /\ frame.pc = "done"
    /\ Val(out).exc = "none"
    /\ frame.given.velocities.id = 2
    /\ Val(Val(out).ret).velocities.id = 2
    /\ Val(Val(out).ret).coords.state = "imaged"

\* What the driver does at position k of its history, for mc exchange moves
\* per batch: the first imaging and the equilibration move, then per batch
\* the re-imaging, mc times (assertion, exchange move), the occupancy report
\* and the NPT move.
ExpectedEvent(k, mc) ==
    LET period == 2 * mc + 3
        pos == (k - 3) % period
    IN IF k = 1 THEN "image"
       ELSE IF k = 2 THEN "npt"
       ELSE IF pos = 0 THEN "image"
       ELSE IF pos <= 2 * mc THEN (IF pos % 2 = 1 THEN "assert" ELSE "mc")
       ELSE IF pos = 2 * mc + 1 THEN "occupancy"
       ELSE "npt"

\* C27: the driver equilibrates with one NPT move of 50000 steps before the
\* main loop; every iteration of the main loop re-images the state, makes
\* exactly mc_steps_per_batch exchange moves, each preceded by the assertion
\* on the coordinates, reports the occupancy (after the MC moves, before MD)
\* and makes exactly one NPT move of md_steps_per_batch steps, in this order;
\* each move gets the state the previous move returned.
C27_DriverSchedule ==
    (prog = "test_exchange" /\ frame.pc # "start") =>
        LET log == frame.log
            mc == IF frame.mc_steps_per_batch > 0 THEN frame.mc_steps_per_batch ELSE 0
        IN /\ \A k \in 1..Len(log) :
                 /\ log[k].ev = ExpectedEvent(k, mc)
                 /\ log[k].ev = "npt" =>
                        log[k].n_steps = (IF k = 2 THEN 50000
                                          ELSE frame.md_steps_per_batch)
                 /\ k > 1 => log[k].src = log[k - 1].dst
                 /\ k > 2 => log[k].idx = (k - 3) \div (2 * mc + 3)
                 /\ log[k].ev \in {"assert", "occupancy"} => log[k].dst = log[k].src
                 /\ log[k].ev \in {"image", "mc", "npt"} => log[k].dst = k
           /\ frame.xvb_t.id = log[Len(log)].dst
           /\ frame.pc = "done" => Len(log) = 2 + MaxBatches * (2 * mc + 3)
           /\ frame.pc = "raised" => log[Len(log)].ev = "assert"

\* Two batches of two exchange moves each have run to the end.
C27_Witness ==
    /\ prog = "test_exchange"
    /\ frame.pc = "done"
    /\ frame.mc_steps_per_batch = 2
    /\ frame.md_steps_per_batch = 2
    /\ frame.idx >= 1
    /\ frame.log[Len(frame.log)].ev = "npt"
    /\ frame.log[Len(frame.log)].n_steps = 2

\* ---------------------------------------------------------------- C28
\* The unordered atom pairs a parameterization produced, and those of the
\* molecule's bonds.
ProducedPairs(mol) ==
    IF mol.openmm_system # None
    THEN {{Val(mol.openmm_system)[i].idxs[1], Val(mol.openmm_system)[i].idxs[2]} :
             i \in 1..Len(Val(mol.openmm_system))}
    ELSE {{mol.table[i].m[1], mol.table[i].m[2]} : i \in 1..Len(mol.table)}
MolPairs(mol) == {{b[1], b[2]} : b \in mol.bonds}

\* C28: HarmonicBondHandler.static_parameterize raises ValueError exactly when
\* the set of unordered atom pairs the parameterization produced differs from
\* the set of unordered bonds of the molecule; when the sets are equal it
\* returns parameters and bond indices (one parameter row per bond index, the
\* bond indices covering the molecule's bonds), and for a molecule with 0
\* bonds both returned arrays have 0 rows, of shapes (0, 2) and (0, 2).
C28_BondTableValidated ==
    (prog = "static_parameterize" /\ out # None) =>
        LET r == Val(out)
            mol == frame.mol
        IN /\ (r.exc = "ValueError") <=> (ProducedPairs(mol) # MolPairs(mol))
           /\ (ProducedPairs(mol) = MolPairs(mol)) =>
                 /\ r.exc = "none"
                 /\ r.ret # None
                 /\ Len(Val(r.ret).mol_params.rows) = Len(Val(r.ret).bond_idxs.rows)
                 /\ {{b[1], b[2]} : b \in
                        {Val(r.ret).bond_idxs.rows[i] :
                            i \in 1..Len(Val(r.ret).bond_idxs.rows)}} = MolPairs(mol)
           /\ (r.exc = "none" /\ mol.bonds = {}) =>
                 /\ Val(r.ret).mol_params = [shape |-> <<0, 2>>, rows |-> <<>>]
                 /\ Val(r.ret).bond_idxs = [shape |-> <<0, 2>>, rows |-> <<>>]

\* A parameterization that produced a pair the molecule has no bond for, and
\* nothing else wrong, was rejected.
C28_Witness ==
    /\ prog = "static_parameterize"
    /\ out # None
    /\ Val(out).exc = "ValueError"
    /\ frame.mol.bonds # {}
    /\ MolPairs(frame.mol) \subseteq ProducedPairs(frame.mol)
    /\ MolPairs(frame.mol) # ProducedPairs(frame.mol)

\* A molecule with two bonds was parameterized from its pattern matches.
C28_WitnessReturns ==
    /\ prog = "static_parameterize"
    /\ out # None
    /\ Val(out).exc = "none"
    /\ frame.mol.openmm_system = None
    /\ Len(Val(Val(out).ret).bond_idxs.rows) = 2

\* A molecule without bonds was parameterized.
C28_WitnessNoBonds ==
    /\ prog = "static_parameterize"
    /\ out # None
    /\ Val(out).exc = "none"
    /\ frame.mol.bonds = {}

\* ---------------------------------------------------------------- C29
\* Pattern p_idx (from 0) of the list matches, after canonicalization, key.
PatternHits(p_idx, key) ==
    \E i \in 1..Len(frame.mol.table) :
        /\ frame.mol.table[i].patt = frame.smirks[p_idx + 1]
        /\ canonicalize_bond(frame.mol.table[i].m) = key

\* C29: generate_vd_idxs returns every canonicalized match of a pattern of the
\* list, each at most once; the parameter index at the same position is the
\* index of the last pattern of the list that matches it; the two returned
\* arrays have the same length.
C29_LastPatternWins ==
    (prog = "generate_vd_idxs" /\ out # None) =>
        LET keys == Val(out).bond_idxs.rows
            vals == Val(out).param_idxs.rows
            P == 0..(Len(frame.smirks) - 1)
        IN /\ Len(keys) = Len(vals)
           /\ Val(out).bond_idxs.shape[1] = Val(out).param_idxs.shape[1]
           /\ \A i, j \in 1..Len(keys) : keys[i] = keys[j] => i = j
           /\ {keys[i] : i \in 1..Len(keys)} =
                 {canonicalize_bond(m) : m \in
                     {frame.mol.table[i].m : i \in {j \in 1..Len(frame.mol.table) :
                         \E p \in P : frame.smirks[p + 1] = frame.mol.table[j].patt}}}
           /\ \A i \in 1..Len(keys) :
                 /\ vals[i] \in P
                 /\ PatternHits(vals[i], keys[i])
                 /\ \A p \in P : PatternHits(p, keys[i]) => p <= vals[i]

\* The same bond was matched by two patterns of the list, the later pattern's
\* match reported first and in the other direction, and it was returned once
\* with the later pattern's index.
C29_Witness ==
    /\ prog = "generate_vd_idxs"
    /\ out # None
    /\ Len(frame.smirks) = 2
    /\ Len(frame.mol.table) = 2
    /\ frame.mol.table[1].patt = 2
    /\ frame.mol.table[2].patt = 1
    /\ frame.mol.table[1].m[1] > frame.mol.table[1].m[2]
    /\ canonicalize_bond(frame.mol.table[1].m) = frame.mol.table[2].m
    /\ Val(out).bond_idxs.rows = <<frame.mol.table[2].m>>
    /\ Val(out).param_idxs.rows = <<1>>

\* ---------------------------------------------------------------- C30
\* The seeds of all integrators and barostats of the states, as a sequence.
SeedsOf(states) ==
    [i \in 1..(2 * Len(states)) |->
        IF i <= Len(states) THEN states[i].integrator.seed
        ELSE states[i - Len(states)].barostat.seed]

\* C30: setup_initial_states builds exactly one InitialState per entry of the
\* lambda schedule, in schedule order, with state k carrying lamb =
\* schedule[k], integrator seed = seed + k and barostat seed = seed + k + 1,
\* and the random seeds used across all windows are pairwise distinct.
C30_SeedsPairwiseDistinct ==
    (prog = "setup_initial_states" /\ out # None) =>
        /\ Len(Val(out)) = Len(frame.lambda_schedule)
        /\ \A k \in 1..Len(Val(out)) :
              /\ Val(out)[k].lamb = frame.lambda_schedule[k]
              /\ Val(out)[k].integrator.seed = frame.seed + (k - 1)
              /\ Val(out)[k].barostat.seed = frame.seed + (k - 1) + 1
        /\ \A i, j \in 1..(2 * Len(Val(out))) :
              SeedsOf(Val(out))[i] = SeedsOf(Val(out))[j] => i = j

\* C30 as amended: one InitialState per schedule entry, in order, state k
\* (from 0) with lamb = schedule[k], integrator seed = seed + k and barostat
\* seed = seed + k + 1; the integrator seeds are pairwise distinct and so are
\* the barostat seeds, and an integrator and a barostat have the same seed
\* exactly when the barostat is the one of the window before the integrator's.
C30_SeedAssignment ==
    (prog = "setup_initial_states" /\ out # None) =>
        LET states == Val(out)
            K == 1..Len(states)
        IN /\ Len(states) = Len(frame.lambda_schedule)
           /\ \A k \in K :
                 /\ states[k].lamb = frame.lambda_schedule[k]
                 /\ states[k].integrator.seed = frame.seed + (k - 1)
                 /\ states[k].barostat.seed = frame.seed + (k - 1) + 1
           /\ \A i, j \in K :
                 /\ states[i].integrator.seed = states[j].integrator.seed => i = j
                 /\ states[i].barostat.seed = states[j].barostat.seed => i = j
                 /\ (states[i].barostat.seed = states[j].integrator.seed) <=> (j = i + 1)

\* Three windows were set up: their integrators have three seeds, and each
\* of the first two barostats has the seed of the next window's integrator.
C30_Witness ==
    /\ prog = "setup_initial_states"
    /\ out # None
    /\ Len(Val(out)) = 3
    /\ Cardinality({Val(out)[k].integrator.seed : k \in 1..3}) = 3
    /\ Val(out)[1].barostat.seed = Val(out)[2].integrator.seed
    /\ Val(out)[2].barostat.seed = Val(out)[3].integrator.seed

====
